---- MODULE Spec2Model ----
(***************************************************************************)
(* Verification model of the framed socket transports of                   *)
(* trae-minimax-client:                                                    *)
(*   - TowelTransportClient (src/towel_transport.py): request/response     *)
(*     correlation between caller threads and the listener thread          *)
(*     (specifications Spec and LiveSpec);                                 *)
(*   - TowelTransportClient._listen_loop byte-level frame reassembly       *)
(*     (specification SpecListen);                                         *)
(*   - IPCCommunicator (src/ipc_communicator.py): connection and listener  *)
(*     lifecycle (SpecIPCLife), request/response over the shared           *)
(*     response_event (SpecIPC), and notifications in both directions      *)
(*     (SpecIPCNotify), request identifiers (SpecIPCSend);                 *)
(*   - VSCodeIPCProtocol (src/vscode_ipc_communicator.py): a mapping       *)
(*     written as a frame and read back (SpecFrame);                       *)
(*   - MockIPCCommunicator (src/ipc_communicator.py) (SpecMock);           *)
(*   - TransportManager, ChatService and ModelService                      *)
(*     (src/trae_client.py) (SpecTransport, SpecChat, SpecModel);          *)
(*   - TowelTransportIPC (src/trae_client_final.py): request/response      *)
(*     correlation (SpecFinal), and its drain loop next to                 *)
(*     TowelTransportClient's (SpecListen);                                *)
(*   - VSCodeIPCProtocol._recv_message reading frames from the socket      *)
(*     (SpecRecv).                                                         *)
(* Every specification uses its own group of variables and leaves the      *)
(* other groups unchanged.                                                 *)
(***************************************************************************)
EXTENDS Integers, Sequences, FiniteSets, TLC

\* ------------------------------------------------------------------------
\* Bounds
\* ------------------------------------------------------------------------

\* Number of threads that call send_request concurrently (one call each).
NumCallers == 2

Callers == 1..NumCallers

\* ------------------------------------------------------------------------
\* Python dict helpers
\* ------------------------------------------------------------------------

EmptyDict == [k \in {} |-> 0]

DictPut(d, k, v) == [x \in (DOMAIN d) \cup {k} |-> IF x = k THEN v ELSE d[x]]

DictDel(d, k) == [x \in (DOMAIN d) \ {k} |-> d[x]]

\* ------------------------------------------------------------------------
\* TowelTransportClient: state
\* ------------------------------------------------------------------------

VARIABLES
    connected,         \* self.connected
    running,           \* self.running
    sock,              \* self.socket: "none" (None) or "open"
    pending_requests,  \* self.pending_requests: request_id -> owner of the Event
    event_set,         \* per caller: flag of the threading.Event it created
    responses,         \* self.responses: request_id -> message
    trace_id_map,      \* self.trace_id_map: trace_id -> request_id
    pc,                \* per caller: position inside send_request
    outcome,           \* per caller: how send_request ended
    result,            \* per caller: response_data returned by send_request
    lpc,               \* listener thread: position inside _listen_loop
    lmsg,              \* listener thread: message being handled
    lrid,              \* listener thread: request_id local of _handle_message
    wire,              \* messages written by the peer, not yet received
    peerInbox,         \* requests the peer has received and not answered
    peerClosed,        \* the peer closed its end of the connection
    answered,          \* callers whose response the peer has written
    handledInTime,     \* history: handler finished c's response before c ended
    blockedAtDisconnect \* history: callers blocked in wait when disconnect ran

towelVars == <<connected, running, sock, pending_requests, event_set, responses,
               trace_id_map, pc, outcome, result, lpc, lmsg, lrid, wire,
               peerInbox, peerClosed, answered, handledInTime,
               blockedAtDisconnect>>


\* _listen_loop, byte level (specification SpecListen)
VARIABLES
    items,        \* history: what the peer wrote, item by item
    sent,         \* history: every byte the peer wrote
    stream,       \* bytes written by the peer and not yet returned by recv
    shortReads,   \* number of short reads so far
    buffer,       \* _listen_loop's local buffer
    handled,      \* messages passed to _handle_message, in order
    listening,    \* the listener loop is running
    final_buffer, \* the buffer of TowelTransportIPC._listen_loop reading
                  \* the same bytes
    final_handled \* messages its drain loop passed to _handle_message

listenVars == <<items, sent, stream, shortReads, buffer, handled, listening,
                final_buffer, final_handled>>

B1(b) == << <<b, 1>> >>

\* IPCCommunicator (specifications SpecIPCLife and SpecIPC)
VARIABLES
    ipc_socket,        \* self.socket: 0 (None) or the id of a socket object
    ipc_connected,     \* self.connected
    sock_state,        \* per socket id: "unused", "open", "unconnected", "closed"
    listener,          \* per listener thread: position in _listen_loop and the
                       \* socket its recv call is bound to
    ipc_peer_closed,   \* sockets whose peer end is closed
    request_id,        \* self.request_id
    pending_responses, \* self.pending_responses: req_id -> None or message
    response_event,    \* self.response_event flag
    ipc_pc,            \* per caller: position inside send_request
    ipc_req,           \* per caller: req_id local of send_request
    ipc_outcome,       \* per caller: how send_request ended
    ipc_result,        \* per caller: value returned by send_request
    ipc_lmsg,          \* per listener thread: message being handled
    ipc_wire,          \* per socket: messages written by the peer, not yet read
    ipc_inbox,         \* requests the peer has received and not answered
    ipc_answered,      \* history: callers whose response the peer has written
    connect_call,      \* the latest connect() call: the endpoint as it was
                       \* found, the value returned, and a flag that flips
                       \* at every call
    notification_callback, \* self.notification_callback is not None
    callback_calls,    \* calls of the notification callback, in order: the
                       \* message passed and the thread that made the call
    ipc_notes,         \* history: per notification the peer wrote, whether
                       \* the callback was registered when it was written
    ipc_notified       \* history: the notifications send_notification wrote

ipcLifeVars == <<ipc_socket, ipc_connected, sock_state, listener,
                 ipc_peer_closed>>

ipcReqVars == <<request_id, pending_responses, response_event, ipc_pc, ipc_req,
                ipc_outcome, ipc_result, ipc_lmsg, ipc_wire, ipc_inbox,
                ipc_answered>>

ipcExtVars == <<connect_call, notification_callback, callback_calls, ipc_notes,
                ipc_notified>>

ipcVars == <<ipcLifeVars, ipcReqVars, ipcExtVars>>

\* VSCodeIPCProtocol._send_message and _recv_message (specification SpecFrame)
VARIABLES
    msg_data,          \* the mapping passed to _send_message
    msg_wire,          \* the bytes sendall wrote
    msg_pc,            \* "idle", "sent", "send_failed" or "received"
    msg_received,      \* what _recv_message made of the bytes
    msg_connected      \* self.connected

frameVars == <<msg_data, msg_wire, msg_pc, msg_received, msg_connected>>

\* MockIPCCommunicator (specification SpecMock); self.socket and
\* self.connected are the inherited fields ipc_socket and ipc_connected.
VARIABLES
    mock_responses,    \* self.mock_responses
    request_log,       \* self.request_log
    mock_calls         \* history: the calls of send_request, in order, each
                       \* with its arguments and the value it returned

mockVars == <<mock_responses, request_log, mock_calls>>

\* TransportManager (specifications SpecTransport, SpecChat)
VARIABLES
    request_history,   \* self.request_history
    tm_calls           \* history: the calls of execute_request, in order,
                       \* each with its method and how it ended

tmVars == <<request_history, tm_calls>>

\* ChatService (specification SpecChat)
VARIABLES
    message_history,   \* self.message_history
    chat_calls         \* history: the calls of send_message, in order, each
                       \* with its message and how it ended

chatVars == <<message_history, chat_calls>>

\* ModelService (specification SpecModel)
VARIABLES
    model_list,        \* self.model_list
    selected_model,    \* self.selected_model
    select_call        \* the latest select_model call: the name passed, the
                       \* value returned, and a flag that flips at every
                       \* call

modelVars == <<model_list, selected_model, select_call>>

VARIABLES
    final,             \* one TowelTransportIPC (trae_client_final.py), its
                       \* callers, its listener thread and its peer
    rx                 \* one VSCodeIPCProtocol reading frames with
                       \* _recv_message, and the peer writing them

finalVars == <<final>>

recvVars == <<rx>>

clientVars == <<frameVars, mockVars, tmVars, chatVars, modelVars, finalVars,
                recvVars>>

vars == <<towelVars, listenVars, ipcVars, clientVars>>

otherThanTowel == <<listenVars, ipcVars, clientVars>>

otherThanListen == <<towelVars, ipcVars, clientVars>>

otherThanIpc == <<towelVars, listenVars, clientVars>>

otherThanFinal == <<towelVars, listenVars, ipcVars, frameVars, mockVars,
                    tmVars, chatVars, modelVars, recvVars>>

otherThanRecv == <<towelVars, listenVars, ipcVars, frameVars, mockVars,
                   tmVars, chatVars, modelVars, finalVars>>

otherThanFrame == <<towelVars, listenVars, ipcVars, mockVars, tmVars, chatVars,
                    modelVars,
    finalVars, recvVars>>

otherThanMock == <<towelVars, listenVars, frameVars, tmVars, chatVars,
                   modelVars,
    finalVars, recvVars>>

otherThanTransport == <<towelVars, listenVars, ipcVars, frameVars, mockVars,
                        chatVars, modelVars,
    finalVars, recvVars>>

otherThanChat == <<towelVars, listenVars, ipcVars, frameVars, mockVars,
                   modelVars,
    finalVars, recvVars>>

otherThanModel == <<towelVars, listenVars, ipcVars, frameVars, mockVars,
                    tmVars, chatVars,
    finalVars, recvVars>>

\* ------------------------------------------------------------------------
\* TowelTransportClient: request/response correlation
\* ------------------------------------------------------------------------

\* uuid.uuid4() request and trace identifiers: distinct per call.
RequestId(c) == <<"request", c>>

TraceId(c) == <<"trace", c>>

\* The response the peer writes for caller c's request.
Response(c) == [trace_id |-> TraceId(c), data |-> c]

NoMsg == [trace_id |-> <<"none", 0>>, data |-> 0]

NoRequest == <<"none", 0>>

\* ------------------------------------------------------------------------
\* TowelTransportClient: operations
\* ------------------------------------------------------------------------

TowelInit ==
    /\ connected = FALSE
    /\ running = FALSE
    /\ sock = "none"
    /\ pending_requests = EmptyDict
    /\ event_set = [c \in Callers |-> FALSE]
    /\ responses = EmptyDict
    /\ trace_id_map = EmptyDict
    /\ pc = [c \in Callers |-> "idle"]
    /\ outcome = [c \in Callers |-> "none"]
    /\ result = [c \in Callers |-> NoMsg]
    /\ lpc = "not_started"
    /\ lmsg = NoMsg
    /\ lrid = NoRequest
    /\ wire = <<>>
    /\ peerInbox = {}
    /\ peerClosed = FALSE
    /\ answered = {}
    /\ handledInTime = {}
    /\ blockedAtDisconnect = {}

\* connect(): one successful connection per instance is modelled here; it
\* opens the socket and starts the listener thread.
Connect ==
    /\ lpc = "not_started"
    /\ sock' = "open"
    /\ connected' = TRUE
    /\ running' = TRUE
    /\ lpc' = "select"
    /\ UNCHANGED <<pending_requests, event_set, responses, trace_id_map, pc,
                   outcome, result, lmsg, lrid, wire, peerInbox, peerClosed, answered,
                   handledInTime, blockedAtDisconnect>>
    /\ UNCHANGED otherThanTowel

\* disconnect(): stops the listener, closes the socket.  It touches neither
\* pending_requests nor any Event.
Disconnect ==
    /\ lpc # "not_started"
    /\ running' = FALSE
    /\ sock' = "none"
    /\ connected' = FALSE
    /\ blockedAtDisconnect' = blockedAtDisconnect \cup
           {c \in Callers : pc[c] = "wait" /\ ~event_set[c]}
    /\ UNCHANGED <<pending_requests, event_set, responses, trace_id_map, pc,
                   outcome, result, lpc, lmsg, lrid, wire, peerInbox, peerClosed,
                   answered, handledInTime>>
    /\ UNCHANGED otherThanTowel

\* send_request, first part: the connected check, the identifiers and the
\* trace_id_map entry.
SendRequestBegin(c) ==
    /\ pc[c] = "idle"
    /\ IF ~connected
       THEN /\ pc' = [pc EXCEPT ![c] = "done"]
            /\ outcome' = [outcome EXCEPT ![c] = "not_connected"]
            /\ UNCHANGED trace_id_map
       ELSE /\ pc' = [pc EXCEPT ![c] = "sendall"]
            /\ trace_id_map' = DictPut(trace_id_map, TraceId(c), RequestId(c))
            /\ UNCHANGED outcome
    /\ UNCHANGED <<connected, running, sock, pending_requests, event_set,
                   responses, result, lpc, lmsg, lrid, wire, peerInbox, peerClosed,
                   answered, handledInTime, blockedAtDisconnect>>
    /\ UNCHANGED otherThanTowel

\* send_request: self.socket.sendall(message); any exception removes the
\* trace_id_map entry and raises.
SendRequestSendall(c) ==
    /\ pc[c] = "sendall"
    /\ IF sock = "none" \/ peerClosed
       THEN /\ trace_id_map' = DictDel(trace_id_map, TraceId(c))
            /\ pc' = [pc EXCEPT ![c] = "done"]
            /\ outcome' = [outcome EXCEPT ![c] = "send_failed"]
            /\ UNCHANGED peerInbox
       ELSE /\ peerInbox' = peerInbox \cup {c}
            /\ pc' = [pc EXCEPT ![c] = "register"]
            /\ UNCHANGED <<trace_id_map, outcome>>
    /\ UNCHANGED <<connected, running, sock, pending_requests, event_set,
                   responses, result, lpc, lmsg, lrid, wire, peerClosed, answered,
                   handledInTime, blockedAtDisconnect>>
    /\ UNCHANGED otherThanTowel

\* send_request: event = threading.Event(); pending_requests[request_id] = event
SendRequestRegister(c) ==
    /\ pc[c] = "register"
    /\ pending_requests' = DictPut(pending_requests, RequestId(c), c)
    /\ event_set' = [event_set EXCEPT ![c] = FALSE]
    /\ pc' = [pc EXCEPT ![c] = "wait"]
    /\ UNCHANGED <<connected, running, sock, responses, trace_id_map, outcome,
                   result, lpc, lmsg, lrid, wire, peerInbox, peerClosed, answered,
                   handledInTime, blockedAtDisconnect>>
    /\ UNCHANGED otherThanTowel

\* A wait that never times out (event.wait() without a timeout).
SendRequestWaitForever(c) ==
    /\ pc[c] = "wait"
    /\ FALSE
    /\ UNCHANGED towelVars
    /\ UNCHANGED otherThanTowel

\* A timeout that raises without removing the pending_requests and
\* trace_id_map entries.
SendRequestTimeoutKeepsEntry(c) ==
    /\ pc[c] = "wait"
    /\ ~event_set[c]
    /\ pc' = [pc EXCEPT ![c] = "done"]
    /\ outcome' = [outcome EXCEPT ![c] = "timeout"]
    /\ UNCHANGED <<connected, running, sock, pending_requests, event_set,
                   responses, trace_id_map, result, lpc, lmsg, lrid, wire,
                   peerInbox, peerClosed, answered, handledInTime,
                   blockedAtDisconnect>>
    /\ UNCHANGED otherThanTowel

\* send_request: event.wait(timeout) returned False.
SendRequestTimeout(c) ==
    /\ pc[c] = "wait"
    /\ ~event_set[c]
    /\ pending_requests' = DictDel(pending_requests, RequestId(c))
    /\ trace_id_map' = DictDel(trace_id_map, TraceId(c))
    /\ pc' = [pc EXCEPT ![c] = "done"]
    /\ outcome' = [outcome EXCEPT ![c] = "timeout"]
    /\ UNCHANGED <<connected, running, sock, event_set, responses, result, lpc,
                   lmsg, lrid, wire, peerInbox, peerClosed, answered, handledInTime,
                   blockedAtDisconnect>>
    /\ UNCHANGED otherThanTowel

\* send_request: event.wait(timeout) returned True.
SendRequestWake(c) ==
    /\ pc[c] = "wait"
    /\ event_set[c]
    /\ result' = [result EXCEPT ![c] =
                     IF RequestId(c) \in DOMAIN responses
                     THEN responses[RequestId(c)] ELSE NoMsg]
    /\ responses' = DictDel(responses, RequestId(c))
    /\ pending_requests' = DictDel(pending_requests, RequestId(c))
    /\ trace_id_map' = DictDel(trace_id_map, TraceId(c))
    /\ pc' = [pc EXCEPT ![c] = "done"]
    /\ outcome' = [outcome EXCEPT ![c] = "result"]
    /\ UNCHANGED <<connected, running, sock, event_set, lpc, lmsg, lrid, wire,
                   peerInbox, peerClosed, answered, handledInTime,
                   blockedAtDisconnect>>
    /\ UNCHANGED otherThanTowel

\* The steps of one caller thread.
CallerStep(c) ==
    \/ SendRequestBegin(c)
    \/ SendRequestSendall(c)
    \/ SendRequestRegister(c)
    \/ SendRequestTimeout(c)
    \/ SendRequestWake(c)

\* A listener that leaves its loop on an empty chunk without clearing
\* self.connected.
ListenSelectKeepsConnected ==
    /\ lpc = "select"
    /\ IF ~(running /\ sock # "none")
       THEN /\ lpc' = "exited"
            /\ UNCHANGED <<lmsg, lrid, wire>>
       ELSE IF wire # <<>>
       THEN /\ lmsg' = Head(wire)
            /\ wire' = Tail(wire)
            /\ lpc' = "lookup"
            /\ UNCHANGED lrid
       ELSE /\ peerClosed
            /\ lpc' = "exited"
            /\ UNCHANGED <<lmsg, lrid, wire>>
    /\ UNCHANGED <<connected, running, sock, pending_requests, event_set,
                   responses, trace_id_map, pc, outcome, result, peerInbox,
                   peerClosed, answered, handledInTime, blockedAtDisconnect>>
    /\ UNCHANGED otherThanTowel

\* _listen_loop: the loop condition, select and recv.  The frames of a
\* well-framed peer are taken one message at a time.
ListenSelect ==
    /\ lpc = "select"
    /\ IF ~(running /\ sock # "none")
       THEN /\ lpc' = "exited"
            /\ UNCHANGED <<connected, lmsg, lrid, wire>>
       ELSE IF wire # <<>>
       THEN /\ lmsg' = Head(wire)
            /\ wire' = Tail(wire)
            /\ lpc' = "lookup"
            /\ UNCHANGED <<connected, lrid>>
       ELSE /\ peerClosed
            /\ connected' = FALSE
            /\ lpc' = "exited"
            /\ UNCHANGED <<lmsg, lrid, wire>>
    /\ UNCHANGED <<running, sock, pending_requests, event_set, responses,
                   trace_id_map, pc, outcome, result, peerInbox, peerClosed,
                   answered, handledInTime, blockedAtDisconnect>>
    /\ UNCHANGED otherThanTowel

\* The caller a trace_id belongs to (history only).
OwnerOf(tid) == {c \in Callers : TraceId(c) = tid}

\* _handle_message: trace_id_map.get(trace_id) and the membership test.
HandleLookup ==
    /\ lpc = "lookup"
    /\ lrid' = IF lmsg.trace_id \in DOMAIN trace_id_map
               THEN trace_id_map[lmsg.trace_id] ELSE NoRequest
    /\ IF lrid' \in DOMAIN pending_requests
       THEN /\ lpc' = "store"
            /\ UNCHANGED handledInTime
       ELSE /\ lpc' = "select"
            /\ handledInTime' = handledInTime \cup
                   {c \in OwnerOf(lmsg.trace_id) : pc[c] # "done"}
    /\ UNCHANGED <<connected, running, sock, pending_requests, event_set,
                   responses, trace_id_map, pc, outcome, result, lmsg, wire,
                   peerInbox, peerClosed, answered, blockedAtDisconnect>>
    /\ UNCHANGED otherThanTowel

\* _handle_message: self.responses[request_id] = message
HandleStore ==
    /\ lpc = "store"
    /\ responses' = DictPut(responses, lrid, lmsg)
    /\ lpc' = "set"
    /\ UNCHANGED <<connected, running, sock, pending_requests, event_set,
                   trace_id_map, pc, outcome, result, lmsg, lrid, wire, peerInbox,
                   peerClosed, answered, handledInTime, blockedAtDisconnect>>
    /\ UNCHANGED otherThanTowel

\* A listener that a KeyError of _handle_message ends: the exception reaches
\* the except clause around the whole iteration, which breaks.
HandleSetKeyErrorEscapes ==
    /\ lpc = "set"
    /\ IF lrid \in DOMAIN pending_requests
       THEN /\ event_set' = [event_set EXCEPT
                                ![pending_requests[lrid]] = TRUE]
            /\ handledInTime' = handledInTime \cup
                   {c \in OwnerOf(lmsg.trace_id) : pc[c] # "done"}
            /\ lpc' = "select"
       ELSE /\ lpc' = "exited"
            /\ UNCHANGED <<event_set, handledInTime>>
    /\ UNCHANGED <<connected, running, sock, pending_requests, responses,
                   trace_id_map, pc, outcome, result, lmsg, lrid, wire, peerInbox,
                   peerClosed, answered, blockedAtDisconnect>>
    /\ UNCHANGED otherThanTowel

\* _handle_message: self.pending_requests[request_id].set(); a KeyError is
\* caught by the drain loop's except clause.
HandleSet ==
    /\ lpc = "set"
    /\ IF lrid \in DOMAIN pending_requests
       THEN /\ event_set' = [event_set EXCEPT
                                ![pending_requests[lrid]] = TRUE]
            /\ handledInTime' = handledInTime \cup
                   {c \in OwnerOf(lmsg.trace_id) : pc[c] # "done"}
       ELSE UNCHANGED <<event_set, handledInTime>>
    /\ lpc' = "select"
    /\ UNCHANGED <<connected, running, sock, pending_requests, responses,
                   trace_id_map, pc, outcome, result, lmsg, lrid, wire, peerInbox,
                   peerClosed, answered, blockedAtDisconnect>>
    /\ UNCHANGED otherThanTowel

\* The peer answers one of the requests it holds, in any order.
PeerRespond(c) ==
    /\ c \in peerInbox
    /\ ~peerClosed
    /\ wire' = Append(wire, Response(c))
    /\ peerInbox' = peerInbox \ {c}
    /\ answered' = answered \cup {c}
    /\ UNCHANGED <<connected, running, sock, pending_requests, event_set,
                   responses, trace_id_map, pc, outcome, result, lpc, lmsg, lrid,
                   peerClosed, handledInTime, blockedAtDisconnect>>
    /\ UNCHANGED otherThanTowel

\* The peer closes the connection.
PeerClose ==
    /\ lpc # "not_started"
    /\ ~peerClosed
    /\ peerClosed' = TRUE
    /\ UNCHANGED <<connected, running, sock, pending_requests, event_set,
                   responses, trace_id_map, pc, outcome, result, lpc, lmsg, lrid,
                   wire, peerInbox, answered, handledInTime,
                   blockedAtDisconnect>>
    /\ UNCHANGED otherThanTowel

\* ------------------------------------------------------------------------
\* TowelTransportClient._listen_loop: byte-level frame reassembly
\* ------------------------------------------------------------------------
\* A byte string is a sequence of runs <<byte, count>>, count >= 1, adjacent
\* runs holding different bytes, so that frames of tens of thousands of bytes
\* keep their exact length.

\* Most frames the peer writes on one connection.
MaxItems == 2

\* Most recv calls that return fewer bytes than were asked for and available.
MaxShortReads == 2

\* Largest size of such a short read.
MaxShort == 3

\* max_buffer_size = 65536
max_buffer_size == 65536

\* self.socket.recv(4096)
RecvSize == 4096

RECURSIVE BLen(_)
\* len(s)
BLen(s) == IF s = <<>> THEN 0 ELSE Head(s)[2] + BLen(Tail(s))

RECURSIVE BTake(_, _)
\* s[:k]
BTake(s, k) ==
    IF k <= 0 \/ s = <<>> THEN <<>>
    ELSE IF Head(s)[2] <= k
         THEN <<Head(s)>> \o BTake(Tail(s), k - Head(s)[2])
         ELSE << <<Head(s)[1], k>> >>

RECURSIVE BDrop(_, _)
\* s[k:]
BDrop(s, k) ==
    IF k <= 0 \/ s = <<>> THEN s
    ELSE IF Head(s)[2] <= k
         THEN BDrop(Tail(s), k - Head(s)[2])
         ELSE << <<Head(s)[1], Head(s)[2] - k>> >> \o Tail(s)

\* s + t
BCat(s, t) ==
    IF s = <<>> THEN t
    ELSE IF t = <<>> THEN s
    ELSE IF s[Len(s)][1] = t[1][1]
         THEN SubSeq(s, 1, Len(s) - 1)
              \o << <<t[1][1], s[Len(s)][2] + t[1][2]>> >>
              \o Tail(t)
         ELSE s \o t

\* s[i:j]
BSlice(s, i, j) == BTake(BDrop(s, i), j - i)

\* s[i], 0 <= i < len(s)
ByteAt(s, i) == BDrop(s, i)[1][1]

\* The set of byte values in s.
ByteSet(s) == {s[i][1] : i \in DOMAIN s}

\* struct.pack('>I', n)
Pack(n) ==
    BCat(BCat(BCat(B1((n \div 16777216) % 256), B1((n \div 65536) % 256)),
              B1((n \div 256) % 256)),
         B1(n % 256))

\* struct.unpack('>I', b)[0] for a 4-byte b whose first byte is below 128
\* (the value fits the checker's integers).
Unpack(b) ==
    ByteAt(b, 0) * 16777216 + ByteAt(b, 1) * 65536 + ByteAt(b, 2) * 256
    + ByteAt(b, 3)

\* len(buffer) < 4 + length.  A first byte of 128 or more declares 2^31 bytes
\* or more, which no buffer of the model holds.
Incomplete(buf) ==
    \/ ByteAt(buf, 0) >= 128
    \/ BLen(buf) < 4 + Unpack(BTake(buf, 4))

\* json.loads(message_data.decode('utf-8')) succeeds.  The JSON grammar is
\* reduced to one shape of object: '{' (123), a body of the letters 'a' (97)
\* and 'b' (98), '}' (125).
JsonOk(data) ==
    /\ BLen(data) >= 2
    /\ ByteAt(data, 0) = 123
    /\ ByteAt(data, BLen(data) - 1) = 125
    /\ ByteSet(BSlice(data, 1, BLen(data) - 1)) \subseteq {97, 98}

\* The message json.loads returns: the object's body.
JsonLoads(data) == BSlice(data, 1, BLen(data) - 1)

RECURSIVE DrainStopsOnBadJson(_)
\* A drain loop whose parse failure escapes to the outer handler: the loop
\* breaks and the frames behind the bad one are never passed on.
DrainStopsOnBadJson(buf) ==
    IF BLen(buf) < 4 THEN [buffer |-> buf, out |-> <<>>, alive |-> TRUE]
    ELSE IF Incomplete(buf)
    THEN [buffer |-> IF BLen(buf) > max_buffer_size THEN <<>> ELSE buf,
          out |-> <<>>, alive |-> TRUE]
    ELSE LET length == Unpack(BTake(buf, 4))
             message_data == BSlice(buf, 4, 4 + length)
             rest == DrainStopsOnBadJson(BDrop(buf, 4 + length))
         IN  IF JsonOk(message_data)
             THEN [buffer |-> rest.buffer,
                   out |-> <<JsonLoads(message_data)>> \o rest.out,
                   alive |-> rest.alive]
             ELSE [buffer |-> BDrop(buf, 4 + length), out |-> <<>>,
                   alive |-> FALSE]

RECURSIVE DrainDropsPartial(_)
\* A drain loop that keeps no partial frame between two recv calls.
DrainDropsPartial(buf) ==
    IF BLen(buf) < 4 THEN [buffer |-> <<>>, out |-> <<>>, alive |-> TRUE]
    ELSE IF Incomplete(buf)
    THEN [buffer |-> <<>>, out |-> <<>>, alive |-> TRUE]
    ELSE LET length == Unpack(BTake(buf, 4))
             message_data == BSlice(buf, 4, 4 + length)
             rest == DrainDropsPartial(BDrop(buf, 4 + length))
         IN  [buffer |-> rest.buffer,
              out |-> (IF JsonOk(message_data)
                       THEN <<JsonLoads(message_data)>> ELSE <<>>) \o rest.out,
              alive |-> rest.alive]

RECURSIVE DrainNewestFirst(_)
\* A drain loop that passes the frames of one buffer on newest first.
DrainNewestFirst(buf) ==
    IF BLen(buf) < 4 THEN [buffer |-> buf, out |-> <<>>, alive |-> TRUE]
    ELSE IF Incomplete(buf)
    THEN [buffer |-> IF BLen(buf) > max_buffer_size THEN <<>> ELSE buf,
          out |-> <<>>, alive |-> TRUE]
    ELSE LET length == Unpack(BTake(buf, 4))
             message_data == BSlice(buf, 4, 4 + length)
             rest == DrainNewestFirst(BDrop(buf, 4 + length))
         IN  [buffer |-> rest.buffer,
              out |-> rest.out \o (IF JsonOk(message_data)
                                   THEN <<JsonLoads(message_data)>> ELSE <<>>),
              alive |-> rest.alive]

RECURSIVE DrainWithoutCap(_)
\* A drain loop that keeps an incomplete frame whatever its size.
DrainWithoutCap(buf) ==
    IF BLen(buf) < 4 THEN [buffer |-> buf, out |-> <<>>, alive |-> TRUE]
    ELSE IF Incomplete(buf)
    THEN [buffer |-> buf, out |-> <<>>, alive |-> TRUE]
    ELSE LET length == Unpack(BTake(buf, 4))
             message_data == BSlice(buf, 4, 4 + length)
             rest == DrainWithoutCap(BDrop(buf, 4 + length))
         IN  [buffer |-> rest.buffer,
              out |-> (IF JsonOk(message_data)
                       THEN <<JsonLoads(message_data)>> ELSE <<>>) \o rest.out,
              alive |-> rest.alive]

RECURSIVE DrainOneFrame(_)
\* A drain step that takes at most one frame from the buffer for each chunk
\* received ("if" in the place of "while").
DrainOneFrame(buf) ==
    IF BLen(buf) < 4 THEN [buffer |-> buf, out |-> <<>>, alive |-> TRUE]
    ELSE IF Incomplete(buf)
    THEN [buffer |-> IF BLen(buf) > max_buffer_size THEN <<>> ELSE buf,
          out |-> <<>>, alive |-> TRUE]
    ELSE LET length == Unpack(BTake(buf, 4))
             message_data == BSlice(buf, 4, 4 + length)
         IN  [buffer |-> BDrop(buf, 4 + length),
              out |-> (IF JsonOk(message_data)
                       THEN <<JsonLoads(message_data)>> ELSE <<>>),
              alive |-> TRUE]

RECURSIVE FinalDrain(_)
\* The drain loop of TowelTransportIPC._listen_loop: the same loop without a
\* cap; a bare except clause swallows whatever a frame raises.
FinalDrain(buf) ==
    IF BLen(buf) < 4 THEN [buffer |-> buf, out |-> <<>>]
    ELSE IF Incomplete(buf) THEN [buffer |-> buf, out |-> <<>>]
    ELSE LET length == Unpack(BTake(buf, 4))
             message == BSlice(buf, 4, 4 + length)
             rest == FinalDrain(BDrop(buf, 4 + length))
         IN  [buffer |-> rest.buffer,
              out |-> (IF JsonOk(message)
                       THEN <<JsonLoads(message)>> ELSE <<>>) \o rest.out]

RECURSIVE Drain(_)
\* The drain loop "while len(buffer) >= 4": the buffer it leaves, the
\* messages it passes to _handle_message, and whether the listener loop goes
\* on (every exception raised for a frame is caught inside the drain loop).
Drain(buf) ==
    IF BLen(buf) < 4 THEN [buffer |-> buf, out |-> <<>>, alive |-> TRUE]
    ELSE IF Incomplete(buf)
    THEN [buffer |-> IF BLen(buf) > max_buffer_size THEN <<>> ELSE buf,
          out |-> <<>>, alive |-> TRUE]
    ELSE LET length == Unpack(BTake(buf, 4))
             message_data == BSlice(buf, 4, 4 + length)
             rest == Drain(BDrop(buf, 4 + length))
         IN  [buffer |-> rest.buffer,
              out |-> (IF JsonOk(message_data)
                       THEN <<JsonLoads(message_data)>> ELSE <<>>) \o rest.out,
              alive |-> rest.alive]

\* What the peer can write.
GoodKinds == {"good_a", "good_b"}

ItemKinds == GoodKinds \cup {"bad_json", "big", "oversize", "fragment3"}

\* The payload of a frame of each kind.
PayloadOf(kind) ==
    CASE kind = "good_a" -> <<<<123, 1>>, <<97, 1>>, <<125, 1>>>>
      [] kind = "good_b" -> <<<<123, 1>>, <<98, 1>>, <<125, 1>>>>
      [] kind = "bad_json" -> <<<<123, 1>>, <<97, 1>>>>
      [] kind = "big" ->
            <<<<123, 1>>, <<97, max_buffer_size - 5>>, <<125, 1>>>>
      [] kind = "oversize" ->
            <<<<123, 1>>, <<97, max_buffer_size - 4>>, <<125, 1>>>>

\* The message json.loads returns for the payload of a parseable kind.
MessageOf(kind) ==
    CASE kind = "good_a" -> <<<<97, 1>>>>
      [] kind = "good_b" -> <<<<98, 1>>>>
      [] kind = "big" -> <<<<97, max_buffer_size - 5>>>>
      [] kind = "oversize" -> <<<<97, max_buffer_size - 4>>>>

\* The byte values of the byte string b.
FromBytes(b) == [i \in 1..BLen(b) |-> ByteAt(b, i - 1)]

\* len(content): the bytes of payload that start a character.
CharCount(payload) ==
    LET s == FromBytes(payload)
    IN  Cardinality({i \in DOMAIN s : s[i] \notin 128..191})

\* A frame whose length field holds the number of characters.
FrameCountsCharacters(payload) == BCat(Pack(CharCount(payload)), payload)

\* A frame as send_request builds it: header + content_bytes.
Frame(payload) == BCat(Pack(BLen(payload)), payload)

\* The bytes of one item: a frame, or the first three bytes of a length prefix.
BytesOf(kind) ==
    IF kind = "fragment3" THEN <<<<0, 3>>>> ELSE Frame(PayloadOf(kind))

RECURSIVE WireOf(_)
WireOf(its) ==
    IF its = <<>> THEN <<>> ELSE BCat(BytesOf(Head(its)), WireOf(Tail(its)))

ItemSeqs == UNION {[1..n -> ItemKinds] : n \in 1..MaxItems}

ListenInit ==
    /\ items \in ItemSeqs
    /\ sent = WireOf(items)
    /\ stream = sent
    /\ shortReads = 0
    /\ buffer = <<>>
    /\ handled = <<>>
    /\ listening = TRUE
    /\ final_buffer = <<>>
    /\ final_handled = <<>>

\* The values the variables of _listen_loop keep in the other specifications.
ListenUnused ==
    /\ items = <<>>
    /\ sent = <<>>
    /\ stream = <<>>
    /\ shortReads = 0
    /\ buffer = <<>>
    /\ handled = <<>>
    /\ listening = FALSE
    /\ final_buffer = <<>>
    /\ final_handled = <<>>

\* One iteration of _listen_loop that receives n bytes: recv, then the drain
\* loop; the listener of a TowelTransportIPC given the same chunk does the
\* same with its own buffer.
RecvChunk(n) ==
    LET d == Drain(BCat(buffer, BTake(stream, n)))
        f == FinalDrain(BCat(final_buffer, BTake(stream, n)))
    IN  /\ stream' = BDrop(stream, n)
        /\ buffer' = d.buffer
        /\ handled' = handled \o d.out
        /\ listening' = d.alive
        /\ final_buffer' = f.buffer
        /\ final_handled' = final_handled \o f.out

\* recv returns everything available, up to 4096 bytes.
ListenRecv ==
    /\ listening
    /\ stream # <<>>
    /\ RecvChunk(IF BLen(stream) < RecvSize THEN BLen(stream) ELSE RecvSize)
    /\ UNCHANGED <<items, sent, shortReads>>
    /\ UNCHANGED otherThanListen

\* recv returns only the first n bytes of what the peer wrote.
ListenRecvShort ==
    /\ listening
    /\ shortReads < MaxShortReads
    /\ \E n \in 1..MaxShort :
          /\ n < BLen(stream)
          /\ RecvChunk(n)
    /\ shortReads' = shortReads + 1
    /\ UNCHANGED <<items, sent>>
    /\ UNCHANGED otherThanListen

\* recv returns b'': the peer closed after its last byte; the loop breaks.
ListenEof ==
    /\ listening
    /\ stream = <<>>
    /\ listening' = FALSE
    /\ UNCHANGED <<items, sent, stream, shortReads, buffer, handled,
                   final_buffer, final_handled>>
    /\ UNCHANGED otherThanListen

\* ------------------------------------------------------------------------
\* IPCCommunicator: connection and listener lifecycle
\* ------------------------------------------------------------------------

\* Most socket objects one instance creates (connect calls that reach
\* socket.socket(), the constructor's included).
MaxSockets == 3

SocketIds == 1..MaxSockets

\* Python None for self.socket.
NoSocket == 0

NoListener == [state |-> "none", sock |-> NoSocket]

\* A message of the line-delimited JSON protocol of IPCCommunicator.
IpcNoMsg == [type |-> "none", id |-> 0, result |-> 0]

\* __init__ with auto_connect=False: lines 92-104.
IpcFields ==
    /\ ipc_socket = NoSocket
    /\ ipc_connected = FALSE
    /\ sock_state = [s \in SocketIds |-> "unused"]
    /\ listener = [s \in SocketIds |-> NoListener]
    /\ ipc_peer_closed = {}
    /\ request_id = 0
    /\ pending_responses = EmptyDict
    /\ response_event = FALSE
    /\ ipc_pc = [c \in Callers |-> "idle"]
    /\ ipc_req = [c \in Callers |-> 0]
    /\ ipc_outcome = [c \in Callers |-> "none"]
    /\ ipc_result = [c \in Callers |-> 0]
    /\ ipc_lmsg = [s \in SocketIds |-> IpcNoMsg]
    /\ ipc_wire = [s \in SocketIds |-> <<>>]
    /\ ipc_inbox = {}
    /\ ipc_answered = {}
    /\ connect_call = [tick |-> FALSE, endpoint |-> "none", result |-> FALSE]
    /\ notification_callback = FALSE
    /\ callback_calls = <<>>
    /\ ipc_notes = <<>>
    /\ ipc_notified = <<>>

\* __init__ with auto_connect=True and a connect() that succeeded.
IpcAutoConnected ==
    /\ ipc_socket = 1
    /\ ipc_connected = TRUE
    /\ sock_state = [s \in SocketIds |-> IF s = 1 THEN "open" ELSE "unused"]
    /\ listener = [s \in SocketIds |->
                      IF s = 1 THEN [state |-> "check", sock |-> NoSocket]
                      ELSE NoListener]
    /\ ipc_peer_closed = {}
    /\ request_id = 0
    /\ pending_responses = EmptyDict
    /\ response_event = FALSE
    /\ ipc_pc = [c \in Callers |-> "idle"]
    /\ ipc_req = [c \in Callers |-> 0]
    /\ ipc_outcome = [c \in Callers |-> "none"]
    /\ ipc_result = [c \in Callers |-> 0]
    /\ ipc_lmsg = [s \in SocketIds |-> IpcNoMsg]
    /\ ipc_wire = [s \in SocketIds |-> <<>>]
    /\ ipc_inbox = {}
    /\ ipc_answered = {}
    /\ connect_call = [tick |-> TRUE, endpoint |-> "ok", result |-> TRUE]
    /\ notification_callback = FALSE
    /\ callback_calls = <<>>
    /\ ipc_notes = <<>>
    /\ ipc_notified = <<>>

\* The socket id socket.socket() returns next.
FreshSocket == CHOOSE s \in SocketIds :
                  /\ sock_state[s] = "unused"
                  /\ \A t \in SocketIds : t < s => sock_state[t] # "unused"

\* connect() without the os.path.exists test: a missing endpoint is found out
\* by socket.connect raising, after the socket object was made.
ConnectBodyNoExistsCheck(endpoint) ==
    /\ \E s \in SocketIds : sock_state[s] = "unused"
    /\ IF endpoint \in {"missing", "refused"}
       THEN /\ ipc_socket' = FreshSocket
            /\ sock_state' = [sock_state EXCEPT ![FreshSocket] = "unconnected"]
            /\ ipc_connected' = FALSE
            /\ connect_call' = [tick |-> ~connect_call.tick,
                                endpoint |-> endpoint, result |-> FALSE]
            /\ UNCHANGED listener
       ELSE /\ ipc_socket' = FreshSocket
            /\ sock_state' = [sock_state EXCEPT ![FreshSocket] = "open"]
            /\ ipc_connected' = TRUE
            /\ listener' = [listener EXCEPT ![FreshSocket] =
                               [state |-> "check", sock |-> NoSocket]]
            /\ connect_call' = [tick |-> ~connect_call.tick,
                                endpoint |-> endpoint, result |-> TRUE]
    /\ UNCHANGED <<ipc_peer_closed, ipcReqVars>>
    /\ UNCHANGED <<notification_callback, callback_calls, ipc_notes,
                   ipc_notified>>
    /\ UNCHANGED otherThanIpc

\* connect() with the endpoint as it is found: "missing" (os.path.exists is
\* false), "refused" (socket.connect raises socket.error) or "ok".
ConnectBody(endpoint) ==
    /\ \E s \in SocketIds : sock_state[s] = "unused"
    /\ IF endpoint = "missing"
       THEN /\ connect_call' = [tick |-> ~connect_call.tick,
                                endpoint |-> endpoint, result |-> FALSE]
            /\ UNCHANGED <<ipc_socket, ipc_connected, sock_state, listener>>
       ELSE IF endpoint = "refused"
       THEN /\ ipc_socket' = FreshSocket
            /\ sock_state' = [sock_state EXCEPT ![FreshSocket] = "unconnected"]
            /\ ipc_connected' = FALSE
            /\ connect_call' = [tick |-> ~connect_call.tick,
                                endpoint |-> endpoint, result |-> FALSE]
            /\ UNCHANGED listener
       ELSE /\ ipc_socket' = FreshSocket
            /\ sock_state' = [sock_state EXCEPT ![FreshSocket] = "open"]
            /\ ipc_connected' = TRUE
            /\ listener' = [listener EXCEPT ![FreshSocket] =
                               [state |-> "check", sock |-> NoSocket]]
            /\ connect_call' = [tick |-> ~connect_call.tick,
                                endpoint |-> endpoint, result |-> TRUE]
    /\ UNCHANGED <<ipc_peer_closed, ipcReqVars>>
    /\ UNCHANGED <<notification_callback, callback_calls, ipc_notes,
                   ipc_notified>>
    /\ UNCHANGED otherThanIpc

Endpoints == {"missing", "refused", "ok"}

\* connect()
IpcConnect == \E endpoint \in Endpoints : ConnectBody(endpoint)

\* __enter__(): self.connect(); return self
IpcEnter == \E endpoint \in Endpoints : ConnectBody(endpoint)

\* A disconnect() that closes the socket and keeps the reference to it.
IpcDisconnectKeepsSocket ==
    /\ IF ipc_socket # NoSocket
       THEN /\ sock_state' = [sock_state EXCEPT ![ipc_socket] = "closed"]
            /\ ipc_connected' = FALSE
            /\ UNCHANGED ipc_socket
       ELSE UNCHANGED <<sock_state, ipc_socket, ipc_connected>>
    /\ UNCHANGED <<listener, ipc_peer_closed, ipcReqVars>>
    /\ UNCHANGED ipcExtVars
    /\ UNCHANGED otherThanIpc

\* disconnect()
IpcDisconnect ==
    /\ IF ipc_socket # NoSocket
       THEN /\ sock_state' = [sock_state EXCEPT ![ipc_socket] = "closed"]
            /\ ipc_socket' = NoSocket
            /\ ipc_connected' = FALSE
       ELSE UNCHANGED <<sock_state, ipc_socket, ipc_connected>>
    /\ UNCHANGED <<listener, ipc_peer_closed, ipcReqVars>>
    /\ UNCHANGED ipcExtVars
    /\ UNCHANGED otherThanIpc

\* _listen_loop: "while self.connected and self.socket", then the call
\* self.socket.recv(4096) on the socket self.socket names at that moment.
IpcListenCheck(t) ==
    /\ listener[t].state = "check"
    /\ IF ipc_connected /\ ipc_socket # NoSocket
       THEN listener' = [listener EXCEPT ![t] =
                            [state |-> "recv", sock |-> ipc_socket]]
       ELSE listener' = [listener EXCEPT ![t] =
                            [state |-> "exited", sock |-> NoSocket]]
    /\ UNCHANGED <<ipc_socket, ipc_connected, sock_state, ipc_peer_closed,
                   ipcReqVars>>
    /\ UNCHANGED ipcExtVars
    /\ UNCHANGED otherThanIpc

\* _listen_loop: recv raised socket.timeout; continue.
IpcListenTimeout(t) ==
    /\ listener[t].state = "recv"
    /\ listener' = [listener EXCEPT ![t] =
                       [state |-> "check", sock |-> NoSocket]]
    /\ UNCHANGED <<ipc_socket, ipc_connected, sock_state, ipc_peer_closed,
                   ipcReqVars>>
    /\ UNCHANGED ipcExtVars
    /\ UNCHANGED otherThanIpc

\* _listen_loop: recv raised on a socket that is closed or was never
\* connected; break.
IpcListenError(t) ==
    /\ listener[t].state = "recv"
    /\ sock_state[listener[t].sock] \in {"closed", "unconnected"}
    /\ listener' = [listener EXCEPT ![t] =
                       [state |-> "exited", sock |-> NoSocket]]
    /\ UNCHANGED <<ipc_socket, ipc_connected, sock_state, ipc_peer_closed,
                   ipcReqVars>>
    /\ UNCHANGED ipcExtVars
    /\ UNCHANGED otherThanIpc

\* _listen_loop: recv returned b''; self.connected = False; break.
IpcListenEof(t) ==
    /\ listener[t].state = "recv"
    /\ sock_state[listener[t].sock] = "open"
    /\ listener[t].sock \in ipc_peer_closed
    /\ ipc_wire[listener[t].sock] = <<>>
    /\ ipc_connected' = FALSE
    /\ listener' = [listener EXCEPT ![t] =
                       [state |-> "exited", sock |-> NoSocket]]
    /\ UNCHANGED <<ipc_socket, sock_state, ipc_peer_closed, ipcReqVars>>
    /\ UNCHANGED ipcExtVars
    /\ UNCHANGED otherThanIpc

\* The peer closes its end of one connection.
IpcPeerClose(s) ==
    /\ sock_state[s] = "open"
    /\ s \notin ipc_peer_closed
    /\ ipc_peer_closed' = ipc_peer_closed \cup {s}
    /\ UNCHANGED <<ipc_socket, ipc_connected, sock_state, listener, ipcReqVars>>
    /\ UNCHANGED ipcExtVars
    /\ UNCHANGED otherThanIpc

\* The state of an instance no specification of which is running.
IpcUnused == IpcFields

\* ------------------------------------------------------------------------
\* IPCCommunicator: send_request and _handle_message
\* ------------------------------------------------------------------------

\* A JSON object is a function from its keys; a key the object lacks is
\* outside its domain.

\* A response with a result, as the peer writes it for caller c's request.
IpcResponse(c) == [type |-> "response", id |-> ipc_req[c], result |-> c]

\* The error objects the peer may answer caller c's request with: one with a
\* code and a message, and one with neither.
ErrorObjects(c) == {[code |-> 0 - c, message |-> <<"error", c>>], EmptyDict}

\* A response with an error object.
IpcErrorResponse(c, e) == [type |-> "response", id |-> ipc_req[c], error |-> e]

\* Everything the peer may answer caller c's request with.
IpcResponsesFor(c) ==
    {IpcResponse(c)} \cup {IpcErrorResponse(c, e) : e \in ErrorObjects(c)}

\* error.get('message', ...) default
DefaultErrorMessage == <<"unknown error">>

\* error.get('code', -1) default
DefaultErrorCode == -1

\* IPCError(error.get('message', ...), error.get('code', -1), error)
RaisedIPCError(error) ==
    [message |-> IF "message" \in DOMAIN error
                 THEN error.message ELSE DefaultErrorMessage,
     code    |-> IF "code" \in DOMAIN error
                 THEN error.code ELSE DefaultErrorCode,
     details |-> error]

\* The same step with the increment outside self.lock: the read of
\* self.request_id and the write of the sum are not one step, so the value
\* read may be the one another thread has already read.
IpcSendBeginUnlocked(c) ==
    /\ ipc_pc[c] = "idle"
    /\ IF ~(ipc_connected /\ ipc_socket # NoSocket)
       THEN /\ ipc_pc' = [ipc_pc EXCEPT ![c] = "done"]
            /\ ipc_outcome' = [ipc_outcome EXCEPT ![c] = "not_connected"]
            /\ UNCHANGED <<request_id, ipc_req>>
       ELSE /\ \E r \in {request_id, request_id - 1} \cap Nat :
                 /\ request_id' = r + 1
                 /\ ipc_req' = [ipc_req EXCEPT ![c] = r + 1]
            /\ ipc_pc' = [ipc_pc EXCEPT ![c] = "sendall"]
            /\ UNCHANGED ipc_outcome
    /\ UNCHANGED <<pending_responses, response_event, ipc_result, ipc_lmsg,
                   ipc_wire, ipc_inbox, ipc_answered>>
    /\ UNCHANGED ipcLifeVars
    /\ UNCHANGED ipcExtVars
    /\ UNCHANGED otherThanIpc

\* A send_request without the is_connected() check.
IpcSendBeginNoCheck(c) ==
    /\ ipc_pc[c] = "idle"
    /\ request_id' = request_id + 1
    /\ ipc_req' = [ipc_req EXCEPT ![c] = request_id + 1]
    /\ ipc_pc' = [ipc_pc EXCEPT ![c] = "sendall"]
    /\ UNCHANGED <<pending_responses, response_event, ipc_outcome, ipc_result,
                   ipc_lmsg, ipc_wire, ipc_inbox, ipc_answered>>
    /\ UNCHANGED ipcLifeVars
    /\ UNCHANGED ipcExtVars
    /\ UNCHANGED otherThanIpc

\* send_request: the is_connected() check and, under self.lock, the new
\* request id.
IpcSendBegin(c) ==
    /\ ipc_pc[c] = "idle"
    /\ IF ~(ipc_connected /\ ipc_socket # NoSocket)
       THEN /\ ipc_pc' = [ipc_pc EXCEPT ![c] = "done"]
            /\ ipc_outcome' = [ipc_outcome EXCEPT ![c] = "not_connected"]
            /\ UNCHANGED <<request_id, ipc_req>>
       ELSE /\ request_id' = request_id + 1
            /\ ipc_req' = [ipc_req EXCEPT ![c] = request_id + 1]
            /\ ipc_pc' = [ipc_pc EXCEPT ![c] = "sendall"]
            /\ UNCHANGED ipc_outcome
    /\ UNCHANGED <<pending_responses, response_event, ipc_result, ipc_lmsg,
                   ipc_wire, ipc_inbox, ipc_answered>>
    /\ UNCHANGED ipcLifeVars
    /\ UNCHANGED ipcExtVars
    /\ UNCHANGED otherThanIpc

\* send_request: self.socket.sendall(...).  On None it raises AttributeError,
\* which send_request does not catch; a socket.error sets connected = False
\* and raises IPCError.
IpcSendall(c) ==
    /\ ipc_pc[c] = "sendall"
    /\ IF ipc_socket = NoSocket
       THEN /\ ipc_pc' = [ipc_pc EXCEPT ![c] = "done"]
            /\ ipc_outcome' = [ipc_outcome EXCEPT ![c] = "attribute_error"]
            /\ UNCHANGED <<ipc_connected, ipc_inbox>>
       ELSE IF sock_state[ipc_socket] # "open" \/ ipc_socket \in ipc_peer_closed
       THEN /\ ipc_pc' = [ipc_pc EXCEPT ![c] = "done"]
            /\ ipc_outcome' = [ipc_outcome EXCEPT ![c] = "send_failed"]
            /\ ipc_connected' = FALSE
            /\ UNCHANGED ipc_inbox
       ELSE /\ ipc_inbox' = ipc_inbox \cup {<<ipc_socket, c>>}
            /\ ipc_pc' = [ipc_pc EXCEPT ![c] = "register"]
            /\ UNCHANGED <<ipc_connected, ipc_outcome>>
    /\ UNCHANGED <<request_id, pending_responses, response_event, ipc_req,
                   ipc_result, ipc_lmsg, ipc_wire, ipc_answered>>
    /\ UNCHANGED <<ipc_socket, sock_state, listener, ipc_peer_closed>>
    /\ UNCHANGED ipcExtVars
    /\ UNCHANGED otherThanIpc

\* send_request: self.pending_responses[req_id] = None
IpcRegister(c) ==
    /\ ipc_pc[c] = "register"
    /\ pending_responses' = DictPut(pending_responses, ipc_req[c], IpcNoMsg)
    /\ ipc_pc' = [ipc_pc EXCEPT ![c] = "clear"]
    /\ UNCHANGED <<request_id, response_event, ipc_req, ipc_outcome, ipc_result,
                   ipc_lmsg, ipc_wire, ipc_inbox, ipc_answered>>
    /\ UNCHANGED ipcLifeVars
    /\ UNCHANGED ipcExtVars
    /\ UNCHANGED otherThanIpc

\* send_request: self.response_event.clear()
IpcClear(c) ==
    /\ ipc_pc[c] = "clear"
    /\ response_event' = FALSE
    /\ ipc_pc' = [ipc_pc EXCEPT ![c] = "wait"]
    /\ UNCHANGED <<request_id, pending_responses, ipc_req, ipc_outcome,
                   ipc_result, ipc_lmsg, ipc_wire, ipc_inbox, ipc_answered>>
    /\ UNCHANGED ipcLifeVars
    /\ UNCHANGED ipcExtVars
    /\ UNCHANGED otherThanIpc

\* send_request: response_event.wait(self.timeout) returned False.
IpcTimeout(c) ==
    /\ ipc_pc[c] = "wait"
    /\ ~response_event
    /\ pending_responses' = DictDel(pending_responses, ipc_req[c])
    /\ ipc_pc' = [ipc_pc EXCEPT ![c] = "done"]
    /\ ipc_outcome' = [ipc_outcome EXCEPT ![c] = "timeout"]
    /\ UNCHANGED <<request_id, response_event, ipc_req, ipc_result, ipc_lmsg,
                   ipc_wire, ipc_inbox, ipc_answered>>
    /\ UNCHANGED ipcLifeVars
    /\ UNCHANGED ipcExtVars
    /\ UNCHANGED otherThanIpc

\* A wake-up that returns the result field without looking for an error.
IpcWakeIgnoresError(c) ==
    /\ ipc_pc[c] = "wait"
    /\ response_event
    /\ LET response == pending_responses[ipc_req[c]]
       IN  IF response = IpcNoMsg
           THEN /\ ipc_outcome' = [ipc_outcome EXCEPT ![c] = "type_error"]
                /\ UNCHANGED ipc_result
           ELSE /\ ipc_outcome' = [ipc_outcome EXCEPT ![c] = "result"]
                /\ ipc_result' = [ipc_result EXCEPT ![c] =
                                     IF "result" \in DOMAIN response
                                     THEN response.result ELSE EmptyDict]
    /\ pending_responses' = DictDel(pending_responses, ipc_req[c])
    /\ ipc_pc' = [ipc_pc EXCEPT ![c] = "done"]
    /\ UNCHANGED <<request_id, response_event, ipc_req, ipc_lmsg, ipc_wire,
                   ipc_inbox, ipc_answered>>
    /\ UNCHANGED ipcLifeVars
    /\ UNCHANGED ipcExtVars
    /\ UNCHANGED otherThanIpc

\* send_request: response_event.wait returned True; the slot is popped.  A
\* slot that still holds None makes "'error' in response" raise TypeError;
\* a response with an error key raises IPCError; any other response gives
\* response.get('result', {}).
IpcWake(c) ==
    /\ ipc_pc[c] = "wait"
    /\ response_event
    /\ LET response == pending_responses[ipc_req[c]]
       IN  IF response = IpcNoMsg
           THEN /\ ipc_outcome' = [ipc_outcome EXCEPT ![c] = "type_error"]
                /\ UNCHANGED ipc_result
           ELSE IF "error" \in DOMAIN response
           THEN /\ ipc_outcome' = [ipc_outcome EXCEPT ![c] = "remote_error"]
                /\ ipc_result' = [ipc_result EXCEPT ![c] =
                                     RaisedIPCError(response.error)]
           ELSE /\ ipc_outcome' = [ipc_outcome EXCEPT ![c] = "result"]
                /\ ipc_result' = [ipc_result EXCEPT ![c] =
                                     IF "result" \in DOMAIN response
                                     THEN response.result ELSE EmptyDict]
    /\ pending_responses' = DictDel(pending_responses, ipc_req[c])
    /\ ipc_pc' = [ipc_pc EXCEPT ![c] = "done"]
    /\ UNCHANGED <<request_id, response_event, ipc_req, ipc_lmsg, ipc_wire,
                   ipc_inbox, ipc_answered>>
    /\ UNCHANGED ipcLifeVars
    /\ UNCHANGED ipcExtVars
    /\ UNCHANGED otherThanIpc

\* The steps of one caller thread of IPCCommunicator.
IpcCallerStep(c) ==
    \/ IpcSendBegin(c)
    \/ IpcSendall(c)
    \/ IpcRegister(c)
    \/ IpcClear(c)
    \/ IpcTimeout(c)
    \/ IpcWake(c)

\* _listen_loop: recv returned one complete line.
IpcListenData(t) ==
    /\ listener[t].state = "recv"
    /\ sock_state[listener[t].sock] = "open"
    /\ ipc_wire[listener[t].sock] # <<>>
    /\ ipc_lmsg' = [ipc_lmsg EXCEPT ![t] = Head(ipc_wire[listener[t].sock])]
    /\ ipc_wire' = [ipc_wire EXCEPT ![listener[t].sock] = Tail(@)]
    /\ listener' = [listener EXCEPT ![t].state = "lookup"]
    /\ UNCHANGED <<request_id, pending_responses, response_event, ipc_pc,
                   ipc_req, ipc_outcome, ipc_result, ipc_inbox, ipc_answered>>
    /\ UNCHANGED <<ipc_socket, ipc_connected, sock_state, ipc_peer_closed>>
    /\ UNCHANGED ipcExtVars
    /\ UNCHANGED otherThanIpc

\* A dispatch that passes a notification to the callback only while no
\* request is pending.
IpcHandleLookupDropsWhilePending(t) ==
    /\ listener[t].state = "lookup"
    /\ LET data == ipc_lmsg[t]
       IN  IF data.type = "response"
           THEN /\ IF "id" \in DOMAIN data /\ data.id \in DOMAIN pending_responses
                   THEN listener' = [listener EXCEPT ![t].state = "store"]
                   ELSE listener' = [listener EXCEPT ![t] =
                                        [state |-> "check", sock |-> NoSocket]]
                /\ UNCHANGED callback_calls
           ELSE /\ listener' = [listener EXCEPT ![t] =
                                    [state |-> "check", sock |-> NoSocket]]
                /\ IF /\ data.type = "notification"
                      /\ notification_callback
                      /\ pending_responses = EmptyDict
                   THEN callback_calls' = Append(callback_calls,
                            [message |-> data, thread |-> <<"listener", t>>])
                   ELSE UNCHANGED callback_calls
    /\ UNCHANGED ipcReqVars
    /\ UNCHANGED <<ipc_socket, ipc_connected, sock_state, ipc_peer_closed>>
    /\ UNCHANGED <<connect_call, notification_callback, ipc_notes,
                   ipc_notified>>
    /\ UNCHANGED otherThanIpc

\* _handle_message: the dispatch on data.get('type'): for a response the
\* test "req_id and req_id in self.pending_responses", for a notification the
\* call of self.notification_callback, if there is one.
IpcHandleLookup(t) ==
    /\ listener[t].state = "lookup"
    /\ LET data == ipc_lmsg[t]
       IN  IF data.type = "response"
           THEN /\ IF "id" \in DOMAIN data /\ data.id \in DOMAIN pending_responses
                   THEN listener' = [listener EXCEPT ![t].state = "store"]
                   ELSE listener' = [listener EXCEPT ![t] =
                                        [state |-> "check", sock |-> NoSocket]]
                /\ UNCHANGED callback_calls
           ELSE /\ listener' = [listener EXCEPT ![t] =
                                    [state |-> "check", sock |-> NoSocket]]
                /\ IF data.type = "notification" /\ notification_callback
                   THEN callback_calls' = Append(callback_calls,
                            [message |-> data, thread |-> <<"listener", t>>])
                   ELSE UNCHANGED callback_calls
    /\ UNCHANGED ipcReqVars
    /\ UNCHANGED <<ipc_socket, ipc_connected, sock_state, ipc_peer_closed>>
    /\ UNCHANGED <<connect_call, notification_callback, ipc_notes,
                   ipc_notified>>
    /\ UNCHANGED otherThanIpc

\* _handle_message: self.pending_responses[req_id] = data
IpcHandleStore(t) ==
    /\ listener[t].state = "store"
    /\ pending_responses' = DictPut(pending_responses, ipc_lmsg[t].id, ipc_lmsg[t])
    /\ listener' = [listener EXCEPT ![t].state = "set"]
    /\ UNCHANGED <<request_id, response_event, ipc_pc, ipc_req, ipc_outcome,
                   ipc_result, ipc_lmsg, ipc_wire, ipc_inbox, ipc_answered>>
    /\ UNCHANGED <<ipc_socket, ipc_connected, sock_state, ipc_peer_closed>>
    /\ UNCHANGED ipcExtVars
    /\ UNCHANGED otherThanIpc

\* _handle_message: self.response_event.set()
IpcHandleSet(t) ==
    /\ listener[t].state = "set"
    /\ response_event' = TRUE
    /\ listener' = [listener EXCEPT ![t] =
                       [state |-> "check", sock |-> NoSocket]]
    /\ UNCHANGED <<request_id, pending_responses, ipc_pc, ipc_req, ipc_outcome,
                   ipc_result, ipc_lmsg, ipc_wire, ipc_inbox, ipc_answered>>
    /\ UNCHANGED <<ipc_socket, ipc_connected, sock_state, ipc_peer_closed>>
    /\ UNCHANGED ipcExtVars
    /\ UNCHANGED otherThanIpc

\* The peer answers one of the requests it holds, on the connection the
\* request came in on, with a result or with an error.
IpcPeerRespond(s, c) ==
    /\ <<s, c>> \in ipc_inbox
    /\ s \notin ipc_peer_closed
    /\ \E m \in IpcResponsesFor(c) :
          ipc_wire' = [ipc_wire EXCEPT ![s] = Append(@, m)]
    /\ ipc_inbox' = ipc_inbox \ {<<s, c>>}
    /\ ipc_answered' = ipc_answered \cup {c}
    /\ UNCHANGED <<request_id, pending_responses, response_event, ipc_pc,
                   ipc_req, ipc_outcome, ipc_result, ipc_lmsg>>
    /\ UNCHANGED ipcLifeVars
    /\ UNCHANGED ipcExtVars
    /\ UNCHANGED otherThanIpc

\* ------------------------------------------------------------------------
\* IPCCommunicator: notifications
\* ------------------------------------------------------------------------

\* Most notifications the peer writes on one connection.
MaxNotes == 2

\* The thread that calls send_notification: the last one.
Notifier == NumCallers

\* The thread that calls send_request next to it: the first one.
Requesters == {c \in Callers \ {Notifier} : \A d \in Callers : c <= d}

\* The n-th notification the peer writes: no id, a type and a payload.
IpcNotification(n) == [type |-> "notification", method |-> n]

\* set_notification_callback(callback)
IpcSetNotificationCallback ==
    /\ ~notification_callback
    /\ notification_callback' = TRUE
    /\ UNCHANGED <<connect_call, callback_calls, ipc_notes, ipc_notified>>
    /\ UNCHANGED <<ipcLifeVars, ipcReqVars>>
    /\ UNCHANGED otherThanIpc

\* The peer writes a notification.
IpcPeerNotify(s) ==
    /\ sock_state[s] = "open"
    /\ s \notin ipc_peer_closed
    /\ Len(ipc_notes) < MaxNotes
    /\ ipc_wire' = [ipc_wire EXCEPT
                       ![s] = Append(@, IpcNotification(Len(ipc_notes) + 1))]
    /\ ipc_notes' = Append(ipc_notes, notification_callback)
    /\ UNCHANGED ipc_notified
    /\ UNCHANGED <<request_id, pending_responses, response_event, ipc_pc,
                   ipc_req, ipc_outcome, ipc_result, ipc_lmsg, ipc_inbox,
                   ipc_answered>>
    /\ UNCHANGED <<connect_call, notification_callback, callback_calls>>
    /\ UNCHANGED ipcLifeVars
    /\ UNCHANGED otherThanIpc

\* The request send_notification builds: a type, a method and params, and
\* no id.
NotificationRequest(method) ==
    [type |-> "notification", method |-> method, params |-> EmptyDict]

\* The method argument of send_notification.
NotifyMethods == {"ping", "log"}

\* A send_notification that takes a request id under self.lock the way
\* send_request does.
IpcNotifyBeginTakesId(c) ==
    /\ ipc_pc[c] = "idle"
    /\ IF ~(ipc_connected /\ ipc_socket # NoSocket)
       THEN /\ ipc_pc' = [ipc_pc EXCEPT ![c] = "done"]
            /\ ipc_outcome' = [ipc_outcome EXCEPT ![c] = "not_connected"]
            /\ UNCHANGED request_id
       ELSE /\ ipc_pc' = [ipc_pc EXCEPT ![c] = "notify_sendall"]
            /\ request_id' = request_id + 1
            /\ UNCHANGED ipc_outcome
    /\ UNCHANGED <<pending_responses, response_event, ipc_req,
                   ipc_result, ipc_lmsg, ipc_wire, ipc_inbox, ipc_answered>>
    /\ UNCHANGED ipcLifeVars
    /\ UNCHANGED ipcExtVars
    /\ UNCHANGED otherThanIpc

\* send_notification: the is_connected() check.
IpcNotifyBegin(c) ==
    /\ ipc_pc[c] = "idle"
    /\ IF ~(ipc_connected /\ ipc_socket # NoSocket)
       THEN /\ ipc_pc' = [ipc_pc EXCEPT ![c] = "done"]
            /\ ipc_outcome' = [ipc_outcome EXCEPT ![c] = "not_connected"]
       ELSE /\ ipc_pc' = [ipc_pc EXCEPT ![c] = "notify_sendall"]
            /\ UNCHANGED ipc_outcome
    /\ UNCHANGED <<request_id, pending_responses, response_event, ipc_req,
                   ipc_result, ipc_lmsg, ipc_wire, ipc_inbox, ipc_answered>>
    /\ UNCHANGED ipcLifeVars
    /\ UNCHANGED ipcExtVars
    /\ UNCHANGED otherThanIpc

\* A send_notification that raises on a write error without clearing
\* self.connected.
IpcNotifySendallKeepsConnected(c) ==
    /\ ipc_pc[c] = "notify_sendall"
    /\ ipc_pc' = [ipc_pc EXCEPT ![c] = "done"]
    /\ IF ipc_socket = NoSocket
       THEN /\ ipc_outcome' = [ipc_outcome EXCEPT ![c] = "attribute_error"]
            /\ UNCHANGED ipc_notified
       ELSE IF sock_state[ipc_socket] # "open" \/ ipc_socket \in ipc_peer_closed
       THEN /\ ipc_outcome' = [ipc_outcome EXCEPT ![c] = "send_failed"]
            /\ UNCHANGED ipc_notified
       ELSE /\ ipc_outcome' = [ipc_outcome EXCEPT ![c] = "sent"]
            /\ \E method \in NotifyMethods :
                  ipc_notified' = Append(ipc_notified,
                                         NotificationRequest(method))
    /\ UNCHANGED <<request_id, pending_responses, response_event, ipc_req,
                   ipc_result, ipc_lmsg, ipc_wire, ipc_inbox, ipc_answered>>
    /\ UNCHANGED ipcLifeVars
    /\ UNCHANGED <<connect_call, notification_callback, callback_calls,
                   ipc_notes>>
    /\ UNCHANGED otherThanIpc

\* send_notification: the request, self.socket.sendall(...) and the return.
\* On None sendall raises AttributeError, which is not caught; a socket.error
\* sets connected = False and raises IPCError.
IpcNotifySendall(c) ==
    /\ ipc_pc[c] = "notify_sendall"
    /\ ipc_pc' = [ipc_pc EXCEPT ![c] = "done"]
    /\ IF ipc_socket = NoSocket
       THEN /\ ipc_outcome' = [ipc_outcome EXCEPT ![c] = "attribute_error"]
            /\ UNCHANGED <<ipc_connected, ipc_notified>>
       ELSE IF sock_state[ipc_socket] # "open" \/ ipc_socket \in ipc_peer_closed
       THEN /\ ipc_outcome' = [ipc_outcome EXCEPT ![c] = "send_failed"]
            /\ ipc_connected' = FALSE
            /\ UNCHANGED ipc_notified
       ELSE /\ ipc_outcome' = [ipc_outcome EXCEPT ![c] = "sent"]
            /\ \E method \in NotifyMethods :
                  ipc_notified' = Append(ipc_notified,
                                         NotificationRequest(method))
            /\ UNCHANGED ipc_connected
    /\ UNCHANGED <<request_id, pending_responses, response_event, ipc_req,
                   ipc_result, ipc_lmsg, ipc_wire, ipc_inbox, ipc_answered>>
    /\ UNCHANGED <<ipc_socket, sock_state, listener, ipc_peer_closed>>
    /\ UNCHANGED <<connect_call, notification_callback, callback_calls,
                   ipc_notes>>
    /\ UNCHANGED otherThanIpc

\* The steps of the thread that calls send_notification.
IpcNotifierStep(c) ==
    \/ IpcNotifyBegin(c)
    \/ IpcNotifySendall(c)

\* ------------------------------------------------------------------------
\* VSCodeIPCProtocol: a mapping written as a frame and read back
\* ------------------------------------------------------------------------
\* A text is a sequence of code points.  A JSON value is a pair of its kind
\* and its content: a string holds its text, an object its (key, value)
\* pairs in insertion order, an array its elements.

\* Longest string value of a payload.
MaxStrLen == 2

\* The code points strings are made of: 'a', '"', '\', newline, U+0001,
\* U+00E9 (2 bytes in UTF-8), U+4E2D (3 bytes), U+1F600 (4 bytes) and the
\* lone surrogate U+D800, which a Python str may hold.
CodePoints == {97, 34, 92, 10, 1, 233, 20013, 128512, 55296}

JStr(s) == <<"str", s>>

JInt(n) == <<"int", n>>

\* True, False, None
JLit(x) == <<"lit", x>>

JObj(pairs) == <<"obj", pairs>>

JArr(elems) == <<"arr", elems>>

HexDigit(d) == IF d < 10 THEN 48 + d ELSE 87 + d

\* '{0:04x}'.format(c)
Hex4(c) ==
    <<HexDigit((c \div 4096) % 16), HexDigit((c \div 256) % 16),
      HexDigit((c \div 16) % 16), HexDigit(c % 16)>>

\* An encoder that writes every character as it is.
EscapeNothing(c) == <<c>>

\* json.encoder.ESCAPE_DCT, as ensure_ascii=False uses it: '"', '\' and
\* the control characters are escaped, every other character is kept.
EscapeChar(c) ==
    CASE c = 34 -> <<92, 34>>
      [] c = 92 -> <<92, 92>>
      [] c = 10 -> <<92, 110>>
      [] c = 13 -> <<92, 114>>
      [] c = 9  -> <<92, 116>>
      [] c = 8  -> <<92, 98>>
      [] c = 12 -> <<92, 102>>
      [] c < 32 /\ c \notin {8, 9, 10, 12, 13} -> <<92, 117>> \o Hex4(c)
      [] OTHER -> <<c>>

RECURSIVE EscapeText(_)
EscapeText(s) ==
    IF s = <<>> THEN <<>> ELSE EscapeChar(Head(s)) \o EscapeText(Tail(s))

\* json.encoder.encode_basestring(s)
EncodeBasestring(s) == <<34>> \o EscapeText(s) \o <<34>>

RECURSIVE Digits(_)
\* str(n), n >= 0
Digits(n) ==
    IF n < 10 THEN <<48 + n>> ELSE Digits(n \div 10) \o <<48 + (n % 10)>>

\* int.__repr__(n)
IntRepr(n) == IF n < 0 THEN <<45>> \o Digits(0 - n) ELSE Digits(n)

\* 'true', 'false', 'null'
LitText(x) ==
    CASE x = "true" -> <<116, 114, 117, 101>>
      [] x = "false" -> <<102, 97, 108, 115, 101>>
      [] x = "null" -> <<110, 117, 108, 108>>

RECURSIVE json_dumps(_)
RECURSIVE DumpPairs(_)
RECURSIVE DumpItems(_)
\* json.dumps(obj, ensure_ascii=False): the default separators are ', ' and
\* ': '.
json_dumps(obj) ==
    CASE obj[1] = "str" -> EncodeBasestring(obj[2])
      [] obj[1] = "int" -> IntRepr(obj[2])
      [] obj[1] = "lit" -> LitText(obj[2])
      [] obj[1] = "obj" -> <<123>> \o DumpPairs(obj[2]) \o <<125>>
      [] obj[1] = "arr" -> <<91>> \o DumpItems(obj[2]) \o <<93>>

DumpPairs(ps) ==
    IF ps = <<>> THEN <<>>
    ELSE EncodeBasestring(ps[1][1]) \o <<58, 32>> \o json_dumps(ps[1][2])
         \o (IF Len(ps) > 1 THEN <<44, 32>> \o DumpPairs(Tail(ps)) ELSE <<>>)

DumpItems(es) ==
    IF es = <<>> THEN <<>>
    ELSE json_dumps(es[1])
         \o (IF Len(es) > 1 THEN <<44, 32>> \o DumpItems(Tail(es)) ELSE <<>>)

\* The UTF-8 bytes of one code point that is not a surrogate.
Utf8Of(c) ==
    IF c < 128 THEN <<c>>
    ELSE IF c < 2048 THEN <<192 + (c \div 64), 128 + (c % 64)>>
    ELSE IF c < 65536
    THEN <<224 + (c \div 4096), 128 + ((c \div 64) % 64), 128 + (c % 64)>>
    ELSE <<240 + (c \div 262144), 128 + ((c \div 4096) % 64),
           128 + ((c \div 64) % 64), 128 + (c % 64)>>

IsSurrogate(c) == c \in 55296..57343

\* content.encode('utf-8') does not raise UnicodeEncodeError.
CanEncode(content) == \A i \in DOMAIN content : ~IsSurrogate(content[i])

RECURSIVE Utf8Encode(_)
\* content.encode('utf-8'), as a sequence of byte values
Utf8Encode(content) ==
    IF content = <<>> THEN <<>>
    ELSE Utf8Of(Head(content)) \o Utf8Encode(Tail(content))

\* The byte string holding the byte values of s: a run starts where a value
\* differs from the one before it.
ToBytes(s) ==
    LET starts == {i \in DOMAIN s : i = 1 \/ s[i] # s[i - 1]}
        nth(j) == CHOOSE i \in starts :
                      Cardinality({k \in starts : k <= i}) = j
        after(i) == IF \E k \in starts : k > i
                    THEN CHOOSE k \in starts :
                             k > i /\ \A m \in starts : m > i => k <= m
                    ELSE Len(s) + 1
    IN  [j \in 1..Cardinality(starts) |-> <<s[nth(j)], after(nth(j)) - nth(j)>>]

DecodeFail == [ok |-> FALSE, text |-> <<>>]

\* The number of bytes of the character a lead byte b starts, 0 where b
\* starts none.
Utf8Width(b) ==
    IF b < 128 THEN 1
    ELSE IF b \in 194..223 THEN 2
    ELSE IF b \in 224..239 THEN 3
    ELSE IF b \in 240..244 THEN 4
    ELSE 0

\* The code point of the n bytes of bs from index i on.
Utf8CodePoint(bs, i, n) ==
    CASE n = 1 -> bs[i]
      [] n = 2 -> (bs[i] - 192) * 64 + (bs[i + 1] - 128)
      [] n = 3 -> (bs[i] - 224) * 4096 + (bs[i + 1] - 128) * 64
                  + (bs[i + 2] - 128)
      [] n = 4 -> (bs[i] - 240) * 262144 + (bs[i + 1] - 128) * 4096
                  + (bs[i + 2] - 128) * 64 + (bs[i + 3] - 128)

\* body.decode('utf-8') on a sequence of byte values: ok is false where it
\* raises UnicodeDecodeError.  A character starts at every byte that is not
\* a continuation byte; the bytes are well formed when the first byte starts
\* a character and every character is followed, after exactly its width, by
\* the next one or by the end, and is neither overlong nor a surrogate.
Utf8Decode(bs) ==
    LET starts == {i \in DOMAIN bs : bs[i] \notin 128..191}
        nth(j) == CHOOSE i \in starts :
                      Cardinality({k \in starts : k <= i}) = j
        good(i) ==
            LET n == Utf8Width(bs[i])
            IN  /\ n > 0
                /\ i + n - 1 <= Len(bs)
                /\ \A k \in 1..(n - 1) : (i + k) \notin starts
                /\ (i + n <= Len(bs) => (i + n) \in starts)
                /\ LET c == Utf8CodePoint(bs, i, n)
                   IN  /\ ~(n = 3 /\ (c < 2048 \/ IsSurrogate(c)))
                       /\ ~(n = 4 /\ (c < 65536 \/ c > 1114111))
    IN  IF bs # <<>> /\ (1 \notin starts \/ \E i \in starts : ~good(i))
        THEN DecodeFail
        ELSE [ok |-> TRUE,
              text |-> [j \in 1..Cardinality(starts) |->
                           Utf8CodePoint(bs, nth(j), Utf8Width(bs[nth(j)]))]]

\* The result of a scan that raised JSONDecodeError.
ScanFail == [ok |-> FALSE, val |-> JLit("null"), pos |-> 0]

IsWs(c) == c \in {32, 9, 10, 13}

RECURSIVE SkipWs(_, _)
\* The index of the first character of t at or after i that is not JSON
\* whitespace.
SkipWs(t, i) == IF i <= Len(t) /\ IsWs(t[i]) THEN SkipWs(t, i + 1) ELSE i

HexVal(c) ==
    IF c \in 48..57 THEN c - 48
    ELSE IF c \in 97..102 THEN c - 87
    ELSE IF c \in 65..70 THEN c - 55
    ELSE 0 - 1

\* The value of the four hex digits t[i..i+3], or -1.
ParseHex4(t, i) ==
    IF i + 3 > Len(t) \/ \E k \in 0..3 : HexVal(t[i + k]) < 0 THEN 0 - 1
    ELSE HexVal(t[i]) * 4096 + HexVal(t[i + 1]) * 256
         + HexVal(t[i + 2]) * 16 + HexVal(t[i + 3])

\* json.decoder.BACKSLASH
Backslash(e) ==
    CASE e = 34 -> 34
      [] e = 92 -> 92
      [] e = 47 -> 47
      [] e = 98 -> 8
      [] e = 102 -> 12
      [] e = 110 -> 10
      [] e = 114 -> 13
      [] e = 116 -> 9

RECURSIVE ScanString(_, _, _)
\* json.decoder.py_scanstring with strict=True: t[i] follows the opening
\* quote, acc holds the characters read so far.
ScanString(t, i, acc) ==
    IF i > Len(t) THEN ScanFail
    ELSE IF t[i] = 34 THEN [ok |-> TRUE, val |-> acc, pos |-> i + 1]
    ELSE IF t[i] < 32 THEN ScanFail
    ELSE IF t[i] # 92 THEN ScanString(t, i + 1, Append(acc, t[i]))
    ELSE IF i + 1 > Len(t) THEN ScanFail
    ELSE IF t[i + 1] = 117
    THEN LET u == ParseHex4(t, i + 2)
             w == ParseHex4(t, i + 8)
         IN  IF u < 0 THEN ScanFail
             ELSE IF /\ u \in 55296..56319
                     /\ i + 7 <= Len(t)
                     /\ t[i + 6] = 92
                     /\ t[i + 7] = 117
                     /\ w \in 56320..57343
             THEN ScanString(t, i + 12,
                             Append(acc, 65536 + (u - 55296) * 1024
                                                + (w - 56320)))
             ELSE ScanString(t, i + 6, Append(acc, u))
    ELSE IF t[i + 1] \in {34, 92, 47, 98, 102, 110, 114, 116}
    THEN ScanString(t, i + 2, Append(acc, Backslash(t[i + 1])))
    ELSE ScanFail

RECURSIVE ScanDigits(_, _, _)
\* The digits of t from i on, read as a decimal number after n.
ScanDigits(t, i, n) ==
    IF i <= Len(t) /\ t[i] \in 48..57
    THEN ScanDigits(t, i + 1, n * 10 + (t[i] - 48))
    ELSE [val |-> n, pos |-> i]

\* json.scanner NUMBER_RE, integers only: a fraction or an exponent makes a
\* float, which no payload of the model holds.
ScanNumber(t, i) ==
    LET j == IF t[i] = 45 THEN i + 1 ELSE i
    IN  IF j > Len(t) \/ t[j] \notin 48..57 THEN ScanFail
        ELSE LET d == IF t[j] = 48 THEN [val |-> 0, pos |-> j + 1]
                      ELSE ScanDigits(t, j, 0)
             IN  IF d.pos <= Len(t) /\ t[d.pos] \in {46, 69, 101}
                 THEN ScanFail
                 ELSE [ok |-> TRUE,
                       val |-> JInt(IF j > i THEN 0 - d.val ELSE d.val),
                       pos |-> d.pos]

\* t[i:i+len(w)] == w
HasAt(t, i, w) ==
    /\ i + Len(w) - 1 <= Len(t)
    /\ SubSeq(t, i, i + Len(w) - 1) = w

RECURSIVE DictSet(_, _, _)
\* d[k] = v on a dict held as its pairs in insertion order.
DictSet(ps, k, v) ==
    IF ps = <<>> THEN << <<k, v>> >>
    ELSE IF ps[1][1] = k THEN << <<k, v>> >> \o Tail(ps)
    ELSE <<ps[1]>> \o DictSet(Tail(ps), k, v)

RECURSIVE ScanValue(_, _)
RECURSIVE ScanObject(_, _, _)
RECURSIVE ScanArray(_, _, _)
\* json.scanner.py_make_scanner: _scan_once(t, i)
ScanValue(t, i) ==
    IF i > Len(t) THEN ScanFail
    ELSE IF t[i] = 34
    THEN LET s == ScanString(t, i + 1, <<>>)
         IN  IF s.ok THEN [ok |-> TRUE, val |-> JStr(s.val), pos |-> s.pos]
             ELSE ScanFail
    ELSE IF t[i] = 123
    THEN LET j == SkipWs(t, i + 1)
         IN  IF j <= Len(t) /\ t[j] = 125
             THEN [ok |-> TRUE, val |-> JObj(<<>>), pos |-> j + 1]
             ELSE ScanObject(t, j, <<>>)
    ELSE IF t[i] = 91
    THEN LET j == SkipWs(t, i + 1)
         IN  IF j <= Len(t) /\ t[j] = 93
             THEN [ok |-> TRUE, val |-> JArr(<<>>), pos |-> j + 1]
             ELSE ScanArray(t, j, <<>>)
    ELSE IF HasAt(t, i, LitText("null"))
    THEN [ok |-> TRUE, val |-> JLit("null"), pos |-> i + 4]
    ELSE IF HasAt(t, i, LitText("true"))
    THEN [ok |-> TRUE, val |-> JLit("true"), pos |-> i + 4]
    ELSE IF HasAt(t, i, LitText("false"))
    THEN [ok |-> TRUE, val |-> JLit("false"), pos |-> i + 5]
    ELSE IF t[i] = 45 \/ t[i] \in 48..57 THEN ScanNumber(t, i)
    ELSE ScanFail

\* json.decoder.JSONObject: t[i] is where the next key's opening quote is
\* expected, ps holds the pairs read so far.
ScanObject(t, i, ps) ==
    IF i > Len(t) \/ t[i] # 34 THEN ScanFail
    ELSE LET k == ScanString(t, i + 1, <<>>)
         IN  IF ~k.ok THEN ScanFail
             ELSE LET j == SkipWs(t, k.pos)
                  IN  IF j > Len(t) \/ t[j] # 58 THEN ScanFail
                      ELSE LET x == ScanValue(t, SkipWs(t, j + 1))
                           IN  IF ~x.ok THEN ScanFail
                               ELSE LET qs == DictSet(ps, k.val, x.val)
                                        e == SkipWs(t, x.pos)
                                    IN  IF e > Len(t) THEN ScanFail
                                        ELSE IF t[e] = 125
                                        THEN [ok |-> TRUE, val |-> JObj(qs),
                                              pos |-> e + 1]
                                        ELSE IF t[e] = 44
                                        THEN ScanObject(t, SkipWs(t, e + 1),
                                                        qs)
                                        ELSE ScanFail

\* json.decoder.JSONArray: t[i] is where the next element starts, es holds
\* the elements read so far.
ScanArray(t, i, es) ==
    LET x == ScanValue(t, i)
    IN  IF ~x.ok THEN ScanFail
        ELSE LET e == SkipWs(t, x.pos)
             IN  IF e > Len(t) THEN ScanFail
                 ELSE IF t[e] = 93
                 THEN [ok |-> TRUE, val |-> JArr(Append(es, x.val)),
                       pos |-> e + 1]
                 ELSE IF t[e] = 44
                 THEN ScanArray(t, SkipWs(t, e + 1), Append(es, x.val))
                 ELSE ScanFail

\* json.loads(text): ok is false where it raises JSONDecodeError (extra data
\* after the value included).
json_loads(text) ==
    LET x == ScanValue(text, SkipWs(text, 1))
    IN  IF ~x.ok THEN [ok |-> FALSE, value |-> JLit("null")]
        ELSE IF SkipWs(text, x.pos) # Len(text) + 1
        THEN [ok |-> FALSE, value |-> JLit("null")]
        ELSE [ok |-> TRUE, value |-> x.val]

\* _send_message, lines 153-159: the bytes handed to sendall; ok is false
\* where encode raises and nothing is written.
EncodeFrame(message) ==
    LET content == json_dumps(message)
    IN  IF ~CanEncode(content) THEN [ok |-> FALSE, wire |-> <<>>]
        ELSE [ok |-> TRUE, wire |-> Frame(ToBytes(Utf8Encode(content)))]

\* _recv_message returned None.
NoMessage == [ok |-> FALSE, value |-> JLit("null")]

\* _recv_message, lines 186-205, on a connection that holds the bytes data:
\* the 4-byte header, the body of the length it declares, decode, parse.
DecodeFrame(data) ==
    IF BLen(data) < 4 \/ ByteAt(data, 0) >= 128 THEN NoMessage
    ELSE LET length == Unpack(BTake(data, 4))
             body == BSlice(data, 4, 4 + length)
         IN  IF BLen(body) < length THEN NoMessage
             ELSE LET text == Utf8Decode(FromBytes(body))
                  IN  IF ~text.ok THEN NoMessage
                      ELSE json_loads(text.text)

\* The strings of the payloads.
Strings == UNION {[1..n -> CodePoints] : n \in 0..MaxStrLen}

Keys == {<<c>> : c \in CodePoints}

Scalars ==
    {JStr(s) : s \in Strings}
    \cup {JInt(n) : n \in {0 - 120, 0, 7, 65536}}
    \cup {JLit(x) : x \in {"true", "false", "null"}}

SmallScalars == {JStr(<<34>>), JStr(<<20013>>), JInt(0 - 1), JLit("null")}

\* Nested values: objects and arrays of scalars.
Nested ==
    {JObj(<<>>), JArr(<<>>)}
    \cup {JObj(<< <<k, x>> >>) : k \in {<<97>>, <<92>>}, x \in SmallScalars}
    \cup {JArr(<<x, y>>) : x \in SmallScalars, y \in SmallScalars}

\* The mappings passed to _send_message: string keys, values that are
\* scalars, objects or arrays.
Payloads ==
    {JObj(<<>>)}
    \cup {JObj(<< <<k, x>> >>) : k \in Keys, x \in Scalars \cup Nested}
    \cup {JObj(<< <<k, x>>, <<m, y>> >>) :
             k \in {<<97>>}, m \in {<<34>>, <<233>>},
             x \in SmallScalars, y \in SmallScalars \cup Nested}

FrameInit ==
    /\ msg_data \in Payloads
    /\ msg_wire = <<>>
    /\ msg_pc = "idle"
    /\ msg_received = NoMessage
    /\ msg_connected = TRUE

\* The values the variables keep in the other specifications.
FrameUnused ==
    /\ msg_data = JObj(<<>>)
    /\ msg_wire = <<>>
    /\ msg_pc = "idle"
    /\ msg_received = NoMessage
    /\ msg_connected = FALSE

\* _send_message(message): the frame is written, or encode raises and the
\* except clause sets self.connected = False and returns False.
SendMessage ==
    /\ msg_pc = "idle"
    /\ msg_connected
    /\ LET f == EncodeFrame(msg_data)
       IN  IF f.ok
           THEN /\ msg_wire' = f.wire
                /\ msg_pc' = "sent"
                /\ UNCHANGED msg_connected
           ELSE /\ msg_pc' = "send_failed"
                /\ msg_connected' = FALSE
                /\ UNCHANGED msg_wire
    /\ UNCHANGED <<msg_data, msg_received>>
    /\ UNCHANGED otherThanFrame

\* _recv_message() on the connection the frame was written to.
RecvMessage ==
    /\ msg_pc = "sent"
    /\ msg_connected
    /\ msg_received' = DecodeFrame(msg_wire)
    /\ msg_pc' = "received"
    /\ UNCHANGED <<msg_data, msg_wire, msg_connected>>
    /\ UNCHANGED otherThanFrame

\* ------------------------------------------------------------------------
\* MockIPCCommunicator
\* ------------------------------------------------------------------------

\* Most calls of one operation in one behaviour.
MaxCalls == 2

\* s.startswith(p), a name being the sequence of its characters
StartsWith(s, p) == Len(s) >= Len(p) /\ SubSeq(s, 1, Len(p)) = p

\* 'get'
GetPrefix == <<"g", "e", "t">>

\* The method names passed to send_request.
MethodNames ==
    {<<>>, <<"g", "e">>, GetPrefix, <<"g", "e", "t", "U">>, <<"G", "e", "t">>,
     <<"s", "e", "t">>, <<"x", "g", "e", "t">>}

\* The params argument: None or a dict.
ParamValues == {"None", "dict"}

\* {'success': True, 'data': {}}
DefaultGetResponse == [success |-> TRUE, data |-> EmptyDict]

\* {'success': True, 'result': 'ok'}
DefaultResponse == [success |-> TRUE, result |-> "ok"]

\* A configured response.
UserInfoResponse == [success |-> TRUE, data |-> [UserID |-> "385"]]

FailureResponse == [success |-> FALSE]

\* The mock_responses argument of the constructor: absent or empty, or
\* responses for some methods.
MockResponseDicts ==
    {EmptyDict,
     [m \in {<<"g", "e", "t", "U">>} |-> UserInfoResponse],
     [m \in {<<"g", "e", "t", "U">>, <<"s", "e", "t">>, <<"g", "e">>} |->
         IF m = <<"g", "e", "t", "U">> THEN UserInfoResponse
         ELSE FailureResponse]}

\* __init__(mock_responses): super().__init__(auto_connect=False), then the
\* two fields of the mock.
MockInit ==
    /\ mock_responses \in MockResponseDicts
    /\ request_log = <<>>
    /\ mock_calls = <<>>

\* The values the variables keep in the other specifications.
MockUnused ==
    /\ mock_responses = EmptyDict
    /\ request_log = <<>>
    /\ mock_calls = <<>>

\* connect(): self.connected = True; return True
MockConnect ==
    /\ ipc_connected' = TRUE
    /\ UNCHANGED <<ipc_socket, sock_state, listener, ipc_peer_closed>>
    /\ UNCHANGED <<ipcReqVars, ipcExtVars, mockVars>>
    /\ UNCHANGED otherThanMock

\* disconnect(): self.connected = False
MockDisconnect ==
    /\ ipc_connected' = FALSE
    /\ UNCHANGED <<ipc_socket, sock_state, listener, ipc_peer_closed>>
    /\ UNCHANGED <<ipcReqVars, ipcExtVars, mockVars>>
    /\ UNCHANGED otherThanMock

\* A send_request that answers with the default mapping whatever
\* mock_responses holds.
MockSendRequestIgnoresConfigured(method, params) ==
    /\ Len(mock_calls) < MaxCalls
    /\ request_log' = Append(request_log, [method |-> method, params |-> params])
    /\ mock_calls' = Append(mock_calls,
           [method |-> method, params |-> params,
            returned |-> IF StartsWith(method, GetPrefix)
                         THEN DefaultGetResponse ELSE DefaultResponse])
    /\ UNCHANGED mock_responses
    /\ UNCHANGED ipcVars
    /\ UNCHANGED otherThanMock

\* send_request(method, params): the entry appended to request_log (its
\* timestamp, which nothing reads, is left out) and the value returned.
MockSendRequest(method, params) ==
    /\ Len(mock_calls) < MaxCalls
    /\ request_log' = Append(request_log, [method |-> method, params |-> params])
    /\ mock_calls' = Append(mock_calls,
           [method |-> method, params |-> params,
            returned |-> IF method \in DOMAIN mock_responses
                         THEN mock_responses[method]
                         ELSE IF StartsWith(method, GetPrefix)
                         THEN DefaultGetResponse
                         ELSE DefaultResponse])
    /\ UNCHANGED mock_responses
    /\ UNCHANGED ipcVars
    /\ UNCHANGED otherThanMock

\* ------------------------------------------------------------------------
\* TransportManager
\* ------------------------------------------------------------------------

\* The method argument of execute_request.
MethodArgs == {"GET", "POST", "post", "PUT", "DELETE", "PATCH"}

\* method.upper()
Upper(method) == IF method = "post" THEN "POST" ELSE method

\* The methods execute_request has a branch for.
SupportedMethods == {"GET", "POST", "PUT", "DELETE"}

\* What the HTTP exchange comes to: a 2xx response with a JSON body, a 2xx
\* response whose body is not JSON, a status raise_for_status raises
\* HTTPError for, requests.exceptions.Timeout, or another
\* requests.exceptions.RequestException raised by the session.
Exchanges == {"ok", "not_json", "http_error", "timeout", "connection_error"}

\* The JSON bodies a server answers with.
Bodies == {[status |-> "ok"], [response |-> "reply"]}

\* The requests.Response object execute_request returns when stream is true.
ResponseObject == [streamed |-> TRUE]

\* An execute_request whose clause for Timeout raises without recording.
ExecuteRequestSkipsTimeout(method, streaming, exchange, body) ==
    IF Upper(method) \notin SupportedMethods
    THEN [raised |-> "ValueError", caught |-> "ValueError",
          status |-> "none", result |-> EmptyDict]
    ELSE IF exchange = "http_error"
    THEN [raised |-> "TraeAPIError", caught |-> "HTTPError",
          status |-> "http_error", result |-> [error |-> "http"]]
    ELSE IF exchange = "timeout"
    THEN [raised |-> "TraeAPIError", caught |-> "Timeout",
          status |-> "none", result |-> EmptyDict]
    ELSE IF exchange = "connection_error"
    THEN [raised |-> "TraeAPIError", caught |-> "RequestException",
          status |-> "request_error", result |-> [error |-> "connection"]]
    ELSE IF streaming
    THEN [raised |-> "none", caught |-> "none",
          status |-> "success", result |-> ResponseObject]
    ELSE IF exchange = "not_json"
    THEN [raised |-> "TraeAPIError", caught |-> "RequestException",
          status |-> "request_error", result |-> [error |-> "json"]]
    ELSE [raised |-> "none", caught |-> "none",
          status |-> "success", result |-> body]

\* execute_request: what it raises, the exception its try statement caught
\* ("ValueError" passes through it uncaught), the status of the record it
\* appends ("none": no record) and the result it records and, on success,
\* returns.  response.json() on a body that is not JSON raises
\* requests.exceptions.JSONDecodeError, a RequestException, after the
\* status was set to "success" and before anything was recorded.
ExecuteRequestOutcome(method, streaming, exchange, body) ==
    IF Upper(method) \notin SupportedMethods
    THEN [raised |-> "ValueError", caught |-> "ValueError",
          status |-> "none", result |-> EmptyDict]
    ELSE IF exchange = "http_error"
    THEN [raised |-> "TraeAPIError", caught |-> "HTTPError",
          status |-> "http_error", result |-> [error |-> "http"]]
    ELSE IF exchange = "timeout"
    THEN [raised |-> "TraeAPIError", caught |-> "Timeout",
          status |-> "timeout", result |-> [error |-> "Request timeout"]]
    ELSE IF exchange = "connection_error"
    THEN [raised |-> "TraeAPIError", caught |-> "RequestException",
          status |-> "request_error", result |-> [error |-> "connection"]]
    ELSE IF streaming
    THEN [raised |-> "none", caught |-> "none",
          status |-> "success", result |-> ResponseObject]
    ELSE IF exchange = "not_json"
    THEN [raised |-> "TraeAPIError", caught |-> "RequestException",
          status |-> "request_error", result |-> [error |-> "json"]]
    ELSE [raised |-> "none", caught |-> "none",
          status |-> "success", result |-> body]

\* _record_request(context, result): the record appended (cost_ms and
\* timestamp, measured times that nothing reads, are left out).  The
\* request id, a uuid4, is the ordinal of the call.
RecordRequest(history, n, request_type, o) ==
    IF o.status = "none" THEN history
    ELSE Append(history, [request_id |-> n, request_type |-> request_type,
                          status |-> o.status, result |-> o.result])

\* __init__: self.request_history = []
TransportInit ==
    /\ request_history = <<>>
    /\ tm_calls = <<>>

TransportUnused == TransportInit

\* execute_request(method, endpoint, ..., stream=streaming)
ExecuteRequest ==
    /\ Len(tm_calls) < MaxCalls
    /\ \E method \in MethodArgs : \E streaming \in BOOLEAN :
       \E exchange \in Exchanges : \E body \in Bodies :
          LET o == ExecuteRequestOutcome(method, streaming, exchange, body)
              n == Len(tm_calls) + 1
          IN  /\ request_history' =
                     RecordRequest(request_history, n, "icube", o)
              /\ tm_calls' = Append(tm_calls,
                     [request_id |-> n, method |-> method,
                      raised |-> o.raised, caught |-> o.caught])
    /\ UNCHANGED otherThanTransport

\* clear_history()
ClearHistory ==
    /\ request_history' = <<>>
    /\ UNCHANGED tm_calls
    /\ UNCHANGED otherThanTransport

\* ------------------------------------------------------------------------
\* ChatService
\* ------------------------------------------------------------------------

\* The message argument of send_message.
Messages == {"m1", "m2"}

\* __init__: self.message_history = []
ChatInit ==
    /\ message_history = <<>>
    /\ chat_calls = <<>>

ChatUnused == ChatInit

\* "response" in result: a key of the dict execute_request returned.  The
\* Response object returned for stream=True is searched by iteration over
\* its chunks of bytes, none of which equals the str.
HasResponse(returned) == "response" \in DOMAIN returned

\* What send_message appends after execute_request has returned.
ChatAppends(message, returned) ==
    <<[role |-> "user", content |-> message]>>
    \o (IF HasResponse(returned)
        THEN <<[role |-> "assistant", content |-> returned.response]>>
        ELSE <<>>)

\* A send_message that appends the user message before it calls the
\* transport.
SendChatMessageAppendsFirst ==
    /\ Len(chat_calls) < MaxCalls
    /\ \E message \in Messages : \E streaming \in BOOLEAN :
       \E exchange \in Exchanges : \E body \in Bodies :
          LET o == ExecuteRequestOutcome("POST", streaming, exchange, body)
              n == Len(tm_calls) + 1
          IN  /\ request_history' =
                     RecordRequest(request_history, n, "chat", o)
              /\ tm_calls' = Append(tm_calls,
                     [request_id |-> n, method |-> "POST",
                      raised |-> o.raised, caught |-> o.caught])
              /\ message_history' =
                     IF o.raised # "none"
                     THEN Append(message_history,
                                 [role |-> "user", content |-> message])
                     ELSE message_history \o ChatAppends(message, o.result)
              /\ chat_calls' = Append(chat_calls,
                     [message |-> message, raised |-> o.raised # "none",
                      result |-> o.result])
    /\ UNCHANGED otherThanChat

\* send_message(message, stream=...): the transport call (the payload, with
\* the last ten entries of the history, changes nothing here), then the
\* appends; an exception of the transport call leaves send_message before
\* them.
SendChatMessage ==
    /\ Len(chat_calls) < MaxCalls
    /\ \E message \in Messages : \E streaming \in BOOLEAN :
       \E exchange \in Exchanges : \E body \in Bodies :
          LET o == ExecuteRequestOutcome("POST", streaming, exchange, body)
              n == Len(tm_calls) + 1
          IN  /\ request_history' =
                     RecordRequest(request_history, n, "chat", o)
              /\ tm_calls' = Append(tm_calls,
                     [request_id |-> n, method |-> "POST",
                      raised |-> o.raised, caught |-> o.caught])
              /\ message_history' =
                     IF o.raised # "none" THEN message_history
                     ELSE message_history \o ChatAppends(message, o.result)
              /\ chat_calls' = Append(chat_calls,
                     [message |-> message, raised |-> o.raised # "none",
                      result |-> o.result])
    /\ UNCHANGED otherThanChat

\* ------------------------------------------------------------------------
\* ModelService
\* ------------------------------------------------------------------------

\* Most entries of a model list.
MaxModels == 2

\* The entries of a model list: dicts with a name, an id, or both.
ModelEntries ==
    {[name |-> "MiniMax-M2.1", id |-> "minimax-m2.1"],
     [name |-> "DeepSeek-V2.5"],
     [id |-> "x-1"]}

\* The model_name argument of select_model.
ModelNames ==
    {"MiniMax-M2.1", "minimax-m2.1", "DeepSeek-V2.5", "x-1", "Unknown-Model"}

\* self.model_list: None, or the list get_model_list stored or the caller
\* assigned.
ModelLists ==
    {[is_none |-> TRUE, items |-> <<>>]}
    \cup {[is_none |-> FALSE, items |-> l] :
             l \in UNION {[1..n -> ModelEntries] : n \in 0..MaxModels}}

\* m.get(key) == model_name
GetEquals(m, key, model_name) == key \in DOMAIN m /\ m[key] = model_name

\* any(m.get("name") == model_name or m.get("id") == model_name
\*     for m in self.model_list)
ModelExists(model_name) ==
    \E i \in DOMAIN model_list.items :
        \/ GetEquals(model_list.items[i], "name", model_name)
        \/ GetEquals(model_list.items[i], "id", model_name)

\* __init__, then a model list as it is loaded or assigned.
ModelInit ==
    /\ model_list \in ModelLists
    /\ selected_model = "MiniMax-M2.1"
    /\ select_call = [tick |-> FALSE, name |-> "none", result |-> FALSE]

\* The values the variables keep in the other specifications.
ModelUnused ==
    /\ model_list = [is_none |-> TRUE, items |-> <<>>]
    /\ selected_model = "MiniMax-M2.1"
    /\ select_call = [tick |-> FALSE, name |-> "none", result |-> FALSE]

\* A select_model that stores the name before it looks at the list.
SelectModelAssignsFirst(model_name) ==
    /\ selected_model' = model_name
    /\ select_call' =
           [tick |-> ~select_call.tick, name |-> model_name,
            result |-> ~(/\ ~model_list.is_none
                         /\ model_list.items # <<>>
                         /\ ~ModelExists(model_name))]
    /\ UNCHANGED model_list
    /\ UNCHANGED otherThanModel

\* select_model(model_name): "if self.model_list" is false for None and for
\* the empty list.
SelectModel(model_name) ==
    /\ IF /\ ~model_list.is_none
          /\ model_list.items # <<>>
          /\ ~ModelExists(model_name)
       THEN /\ select_call' = [tick |-> ~select_call.tick,
                               name |-> model_name, result |-> FALSE]
            /\ UNCHANGED selected_model
       ELSE /\ selected_model' = model_name
            /\ select_call' = [tick |-> ~select_call.tick,
                               name |-> model_name, result |-> TRUE]
    /\ UNCHANGED model_list
    /\ UNCHANGED otherThanModel

\* ------------------------------------------------------------------------
\* TowelTransportIPC (trae_client_final.py): request/response correlation
\* ------------------------------------------------------------------------

\* Messages the peer may write that answer no request (bound).
MaxEvents == 1

\* The response the peer writes for caller c's request: it carries the
\* request_id and the trace_id of that request.
FinalResponse(c) ==
    [kind |-> "response", request_id |-> RequestId(c), trace_id |-> TraceId(c)]

\* A message of the peer that carries neither identifier.
FinalEvent ==
    [kind |-> "event", request_id |-> NoRequest, trace_id |-> NoRequest]

\* The default of self.responses.pop(request_id, {}).
FinalEmpty ==
    [kind |-> "empty", request_id |-> NoRequest, trace_id |-> NoRequest]

\* message.get('trace_id') or message.get('request_id')
FinalHasId(message) ==
    message.trace_id # NoRequest \/ message.request_id # NoRequest

\* The caller whose send_request call made the identifier rid.
FinalOwner(rid) == CHOOSE c \in Callers : RequestId(c) = rid

\* __init__: no socket, not connected, both dicts empty.  pending_requests
\* is a dict and keeps insertion order: a sequence of its keys, each with
\* the Event of the caller that inserted it.
FinalInit ==
    final = [socket |-> "none",
             connected |-> FALSE,
             pending_requests |-> <<>>,
             event_set |-> [c \in Callers |-> FALSE],
             responses |-> EmptyDict,
             pc |-> [c \in Callers |-> "idle"],
             outcome |-> [c \in Callers |-> "none"],
             result |-> [c \in Callers |-> FinalEmpty],
             wire |-> {},
             inbox |-> <<>>,
             events |-> 0]

FinalUnused == FinalInit

\* del self.pending_requests[request_id]
FinalDel(pending, rid) == SelectSeq(pending, LAMBDA r : r # rid)

\* connect() with the socket file present
FinalConnect ==
    /\ ~final.connected
    /\ final.socket = "none"
    /\ final' = [final EXCEPT !.socket = "open", !.connected = TRUE]
    /\ UNCHANGED otherThanFinal

\* disconnect()
FinalDisconnect ==
    /\ IF final.socket # "none"
       THEN final' = [final EXCEPT !.socket = "none", !.connected = FALSE]
       ELSE UNCHANGED final
    /\ UNCHANGED otherThanFinal

\* send_request, lines 236-237: the connected check
FinalSendBegin(c) ==
    /\ final.pc[c] = "idle"
    /\ IF ~final.connected
       THEN final' = [final EXCEPT !.pc[c] = "done",
                                   !.outcome[c] = "not_connected"]
       ELSE final' = [final EXCEPT !.pc[c] = "send"]
    /\ UNCHANGED otherThanFinal

\* send_request, line 262: self.socket.sendall(message); the socket is None
\* when disconnect() ran after the check
FinalSendall(c) ==
    /\ final.pc[c] = "send"
    /\ IF final.socket = "none"
       THEN final' = [final EXCEPT !.pc[c] = "done", !.outcome[c] = "error"]
       ELSE final' = [final EXCEPT !.pc[c] = "register",
                                   !.wire = @ \cup {c}]
    /\ UNCHANGED otherThanFinal

\* send_request, lines 266-267: a new Event under the request_id
FinalRegister(c) ==
    /\ final.pc[c] = "register"
    /\ final' = [final EXCEPT
                    !.pending_requests = Append(@, RequestId(c)),
                    !.event_set[c] = FALSE,
                    !.pc[c] = "wait"]
    /\ UNCHANGED otherThanFinal

\* send_request, lines 269-271: event.wait(timeout) returned False
FinalTimeout(c) ==
    /\ final.pc[c] = "wait"
    /\ ~final.event_set[c]
    /\ final' = [final EXCEPT
                    !.pending_requests = FinalDel(@, RequestId(c)),
                    !.pc[c] = "done",
                    !.outcome[c] = "timeout"]
    /\ UNCHANGED otherThanFinal

\* send_request, lines 274-278: the event is set
FinalWake(c) ==
    /\ final.pc[c] = "wait"
    /\ final.event_set[c]
    /\ final' = [final EXCEPT
                    !.result[c] = IF RequestId(c) \in DOMAIN final.responses
                                  THEN final.responses[RequestId(c)]
                                  ELSE FinalEmpty,
                    !.responses = DictDel(@, RequestId(c)),
                    !.pending_requests = FinalDel(@, RequestId(c)),
                    !.pc[c] = "done",
                    !.outcome[c] = "result"]
    /\ UNCHANGED otherThanFinal

\* The first pending request whose event is not set, 0 when there is none:
\* the loop of _handle_message, lines 207-209.
FinalFirstUnset(pending, flags) ==
    LET unset == {i \in DOMAIN pending : ~flags[FinalOwner(pending[i])]}
    IN  IF unset = {} THEN 0
        ELSE CHOOSE i \in unset : \A j \in unset : i <= j

\* _listen_loop hands one received message to _handle_message, lines
\* 204-215.
FinalHandleMessage ==
    /\ final.connected
    /\ final.socket # "none"
    /\ final.inbox # <<>>
    /\ LET message == Head(final.inbox)
           i == FinalFirstUnset(final.pending_requests, final.event_set)
       IN  IF i # 0 /\ FinalHasId(message)
           THEN LET req_id == final.pending_requests[i]
                IN  final' = [final EXCEPT
                                 !.responses = DictPut(@, req_id, message),
                                 !.event_set[FinalOwner(req_id)] = TRUE,
                                 !.inbox = Tail(@)]
           ELSE final' = [final EXCEPT !.inbox = Tail(@)]
    /\ UNCHANGED otherThanFinal

\* The peer answers a request it has read.
FinalPeerRespond(c) ==
    /\ c \in final.wire
    /\ final' = [final EXCEPT !.wire = @ \ {c},
                              !.inbox = Append(@, FinalResponse(c))]
    /\ UNCHANGED otherThanFinal

\* The peer writes a message that answers no request.
FinalPeerEvent ==
    /\ final.socket # "none"
    /\ final.events < MaxEvents
    /\ final' = [final EXCEPT !.events = @ + 1,
                              !.inbox = Append(@, FinalEvent)]
    /\ UNCHANGED otherThanFinal

\* ------------------------------------------------------------------------
\* VSCodeIPCProtocol._recv_message: reading frames from the socket
\* ------------------------------------------------------------------------

\* The frames the peer writes.
RecvKinds == GoodKinds \cup {"bad_json"}

\* The bytes the peer writes in all.
RxWire == WireOf(rx.items)

\* The bytes written to the socket and not yet read.
RxAvailable == rx.written - rx.pos

\* A connected protocol object and a peer that is going to write one or two
\* frames; nothing has been written or read.
RecvInit ==
    \E its \in UNION {[1..n -> RecvKinds] : n \in 1..MaxItems} :
        rx = [items |-> its,
              written |-> 0,
              closed |-> FALSE,
              pos |-> 0,
              connected |-> TRUE,
              pc |-> "idle",
              length |-> 0,
              body |-> 0,
              last |-> "none",
              messages |-> <<>>]

RecvUnused ==
    rx = [items |-> <<>>,
          written |-> 0,
          closed |-> FALSE,
          pos |-> 0,
          connected |-> FALSE,
          pc |-> "idle",
          length |-> 0,
          body |-> 0,
          last |-> "none",
          messages |-> <<>>]

\* The peer writes the next n bytes of its frames.
RecvPeerWrite ==
    /\ ~rx.closed
    /\ \E n \in 1..(BLen(RxWire) - rx.written) :
          rx' = [rx EXCEPT !.written = @ + n]
    /\ UNCHANGED otherThanRecv

\* The peer closes the connection.
RecvPeerClose ==
    /\ ~rx.closed
    /\ rx' = [rx EXCEPT !.closed = TRUE]
    /\ UNCHANGED otherThanRecv

\* What _recv_message returns once the body is complete, line 205:
\* json.loads(body.decode('utf-8')), None when it raises.
RecvFinish(r) ==
    LET body == BSlice(RxWire, r.pos - r.length, r.pos)
    IN  IF JsonOk(body)
        THEN [r EXCEPT !.pc = "idle", !.last = "message",
                       !.messages = Append(@, JsonLoads(body))]
        ELSE [r EXCEPT !.pc = "idle", !.last = "error"]

\* _recv_message, lines 183-194: header = self.socket.recv(4) returns the
\* bytes that are there, at most 4.  No byte before the timeout: None.  End
\* of stream: connected = False, None.  Fewer than 4 bytes: struct.unpack
\* raises, None.  4 bytes: the length.
RecvHeader ==
    /\ rx.connected
    /\ rx.pc = "idle"
    /\ LET n == IF RxAvailable < 4 THEN RxAvailable ELSE 4
       IN  IF n = 0
           THEN IF rx.closed
                THEN rx' = [rx EXCEPT !.connected = FALSE, !.last = "closed"]
                ELSE rx' = [rx EXCEPT !.last = "timeout"]
           ELSE IF n < 4
           THEN rx' = [rx EXCEPT !.pos = @ + n, !.last = "error"]
           ELSE LET length == Unpack(BSlice(RxWire, rx.pos, rx.pos + 4))
                    r == [rx EXCEPT !.pos = @ + 4, !.length = length,
                                    !.body = 0, !.pc = "body"]
                IN  rx' = IF length = 0 THEN RecvFinish(r) ELSE r
    /\ UNCHANGED otherThanRecv

\* _recv_message, lines 197-202: one recv of the body loop.  No byte before
\* the timeout: socket.timeout, None.  End of stream: None.
RecvBody ==
    /\ rx.pc = "body"
    /\ LET want == rx.length - rx.body
           n == IF RxAvailable < want THEN RxAvailable ELSE want
       IN  IF n = 0
           THEN rx' = [rx EXCEPT !.pc = "idle",
                                 !.last = IF rx.closed THEN "eof"
                                          ELSE "timeout"]
           ELSE LET r == [rx EXCEPT !.pos = @ + n, !.body = @ + n]
                IN  rx' = IF r.body = r.length THEN RecvFinish(r) ELSE r
    /\ UNCHANGED otherThanRecv

\* The state of the client classes no specification of which is running.
ClientUnused ==
    /\ FrameUnused
    /\ MockUnused
    /\ TransportUnused
    /\ ChatUnused
    /\ ModelUnused
    /\ FinalUnused
    /\ RecvUnused

\* ------------------------------------------------------------------------
\* Specifications
\* ------------------------------------------------------------------------

SpecListenInit == ListenInit /\ TowelInit /\ IpcUnused /\ ClientUnused

SpecListenNext == ListenRecv \/ ListenRecvShort \/ ListenEof

SpecListen == SpecListenInit /\ [][SpecListenNext]_vars

\* After construction: auto_connect=False, or auto_connect=True with a
\* successful connect().
SpecIPCLifeInit ==
    /\ IpcFields \/ IpcAutoConnected
    /\ TowelInit
    /\ ListenUnused
    /\ ClientUnused

SpecIPCLifeNext ==
    \/ IpcConnect
    \/ IpcEnter
    \/ IpcDisconnect
    \/ \E t \in SocketIds : IpcListenCheck(t)
    \/ \E t \in SocketIds : IpcListenTimeout(t)
    \/ \E t \in SocketIds : IpcListenError(t)
    \/ \E t \in SocketIds : IpcListenEof(t)
    \/ \E s \in SocketIds : IpcPeerClose(s)

SpecIPCLife == SpecIPCLifeInit /\ [][SpecIPCLifeNext]_vars

\* IPCCommunicator constructed with auto_connect=True and connected; one
\* connection, its listener, and the callers of send_request.
SpecIPCInit ==
    /\ IpcAutoConnected
    /\ TowelInit
    /\ ListenUnused
    /\ ClientUnused

SpecIPCNext ==
    \/ \E c \in Callers : IpcCallerStep(c)
    \/ \E t \in SocketIds : IpcListenCheck(t)
    \/ \E t \in SocketIds : IpcListenTimeout(t)
    \/ \E t \in SocketIds : IpcListenError(t)
    \/ \E t \in SocketIds : IpcListenEof(t)
    \/ \E t \in SocketIds : IpcListenData(t)
    \/ \E t \in SocketIds : IpcHandleLookup(t)
    \/ \E t \in SocketIds : IpcHandleStore(t)
    \/ \E t \in SocketIds : IpcHandleSet(t)
    \/ \E s \in SocketIds, c \in Callers : IpcPeerRespond(s, c)
    \/ \E s \in SocketIds : IpcPeerClose(s)
    \/ IpcDisconnect

SpecIPC == SpecIPCInit /\ [][SpecIPCNext]_vars

\* IPCCommunicator constructed with auto_connect=True and connected; the
\* listener, one thread calling send_request, one thread calling
\* send_notification, and a peer that writes responses and notifications.
SpecIPCNotifyInit ==
    /\ IpcAutoConnected
    /\ TowelInit
    /\ ListenUnused
    /\ ClientUnused

SpecIPCNotifyNext ==
    \/ \E c \in Requesters : IpcCallerStep(c)
    \/ IpcNotifierStep(Notifier)
    \/ IpcSetNotificationCallback
    \/ \E t \in SocketIds : IpcListenCheck(t)
    \/ \E t \in SocketIds : IpcListenTimeout(t)
    \/ \E t \in SocketIds : IpcListenError(t)
    \/ \E t \in SocketIds : IpcListenEof(t)
    \/ \E t \in SocketIds : IpcListenData(t)
    \/ \E t \in SocketIds : IpcHandleLookup(t)
    \/ \E t \in SocketIds : IpcHandleStore(t)
    \/ \E t \in SocketIds : IpcHandleSet(t)
    \/ \E s \in SocketIds, c \in Callers : IpcPeerRespond(s, c)
    \/ \E s \in SocketIds : IpcPeerNotify(s)
    \/ \E s \in SocketIds : IpcPeerClose(s)
    \/ IpcDisconnect

SpecIPCNotify == SpecIPCNotifyInit /\ [][SpecIPCNotifyNext]_vars

\* IPCCommunicator after construction, with auto_connect=False or with
\* auto_connect=True and connected; the callers of send_request against a
\* peer that never answers.
SpecIPCSendInit ==
    /\ IpcFields \/ IpcAutoConnected
    /\ TowelInit
    /\ ListenUnused
    /\ ClientUnused

SpecIPCSendNext ==
    \/ \E c \in Callers : IpcSendBegin(c)
    \/ \E c \in Callers : IpcSendall(c)
    \/ \E c \in Callers : IpcRegister(c)
    \/ \E c \in Callers : IpcClear(c)
    \/ \E c \in Callers : IpcTimeout(c)
    \/ \E t \in SocketIds : IpcListenCheck(t)
    \/ \E t \in SocketIds : IpcListenTimeout(t)
    \/ \E t \in SocketIds : IpcListenError(t)
    \/ \E t \in SocketIds : IpcListenEof(t)
    \/ \E s \in SocketIds : IpcPeerClose(s)
    \/ IpcDisconnect

SpecIPCSend == SpecIPCSendInit /\ [][SpecIPCSendNext]_vars

\* VSCodeIPCProtocol connected: one mapping is written as a frame and the
\* frame is read back.
SpecFrameInit ==
    /\ FrameInit
    /\ TowelInit
    /\ ListenUnused
    /\ IpcUnused
    /\ MockUnused /\ TransportUnused /\ ChatUnused /\ ModelUnused
    /\ FinalUnused /\ RecvUnused

SpecFrameNext == SendMessage \/ RecvMessage

SpecFrame == SpecFrameInit /\ [][SpecFrameNext]_vars

\* MockIPCCommunicator after construction, and its three operations.
SpecMockInit ==
    /\ MockInit
    /\ IpcFields
    /\ TowelInit
    /\ ListenUnused
    /\ FrameUnused /\ TransportUnused /\ ChatUnused /\ ModelUnused
    /\ FinalUnused /\ RecvUnused

SpecMockNext ==
    \/ MockConnect
    \/ MockDisconnect
    \/ \E method \in MethodNames, params \in ParamValues :
          MockSendRequest(method, params)

SpecMock == SpecMockInit /\ [][SpecMockNext]_vars

\* TransportManager after construction: calls of execute_request and of
\* clear_history, one after the other.
SpecTransportInit ==
    /\ TransportInit
    /\ TowelInit
    /\ ListenUnused
    /\ IpcUnused
    /\ FrameUnused /\ MockUnused /\ ChatUnused /\ ModelUnused
    /\ FinalUnused /\ RecvUnused

SpecTransportNext == ExecuteRequest \/ ClearHistory

SpecTransport == SpecTransportInit /\ [][SpecTransportNext]_vars

\* ChatService over a TransportManager, both after construction: calls of
\* send_message, one after the other.
SpecChatInit ==
    /\ ChatInit
    /\ TransportInit
    /\ TowelInit
    /\ ListenUnused
    /\ IpcUnused
    /\ FrameUnused /\ MockUnused /\ ModelUnused
    /\ FinalUnused /\ RecvUnused

SpecChatNext == SendChatMessage

SpecChat == SpecChatInit /\ [][SpecChatNext]_vars

\* ModelService with a model list: calls of select_model.
SpecModelInit ==
    /\ ModelInit
    /\ TowelInit
    /\ ListenUnused
    /\ IpcUnused
    /\ FrameUnused /\ MockUnused /\ TransportUnused /\ ChatUnused
    /\ FinalUnused /\ RecvUnused

SpecModelNext == \E model_name \in ModelNames : SelectModel(model_name)

SpecModel == SpecModelInit /\ [][SpecModelNext]_vars

\* One TowelTransportIPC after construction, callers of send_request, its
\* listener thread and the peer.
SpecFinalInit ==
    /\ FinalInit
    /\ TowelInit
    /\ ListenUnused
    /\ IpcUnused
    /\ FrameUnused /\ MockUnused /\ TransportUnused /\ ChatUnused
    /\ ModelUnused /\ RecvUnused

SpecFinalNext ==
    \/ FinalConnect
    \/ FinalDisconnect
    \/ \E c \in Callers : FinalSendBegin(c)
    \/ \E c \in Callers : FinalSendall(c)
    \/ \E c \in Callers : FinalRegister(c)
    \/ \E c \in Callers : FinalTimeout(c)
    \/ \E c \in Callers : FinalWake(c)
    \/ FinalHandleMessage
    \/ \E c \in Callers : FinalPeerRespond(c)
    \/ FinalPeerEvent

SpecFinal == SpecFinalInit /\ [][SpecFinalNext]_vars

\* One connected VSCodeIPCProtocol whose _listen_loop calls _recv_message
\* again and again while the peer writes frames.
SpecRecvInit ==
    /\ RecvInit
    /\ TowelInit
    /\ ListenUnused
    /\ IpcUnused
    /\ FrameUnused /\ MockUnused /\ TransportUnused /\ ChatUnused
    /\ ModelUnused /\ FinalUnused

SpecRecvNext == RecvPeerWrite \/ RecvPeerClose \/ RecvHeader \/ RecvBody

SpecRecv == SpecRecvInit /\ [][SpecRecvNext]_vars

Init == TowelInit /\ ListenUnused /\ IpcUnused /\ ClientUnused

Next ==
    \/ Connect
    \/ Disconnect
    \/ \E c \in Callers : CallerStep(c)
    \/ ListenSelect
    \/ HandleLookup
    \/ HandleStore
    \/ HandleSet
    \/ \E c \in Callers : PeerRespond(c)
    \/ PeerClose

Spec == Init /\ [][Next]_vars

\* Every caller thread keeps running: a step of send_request that can be
\* taken (its timeout expiring included) is eventually taken.
LiveSpec == Init /\ [][Next]_vars /\ \A c \in Callers : WF_vars(CallerStep(c))

\* ------------------------------------------------------------------------
\* Claims about TowelTransportClient request/response correlation
\* ------------------------------------------------------------------------

\* C1: every send_request that was blocked waiting when disconnect() ran ends
\* with a Disconnected failure, not with a request timeout.
C1_DisconnectReleasesWaiters ==
    \A c \in Callers :
        (c \in blockedAtDisconnect /\ pc[c] = "done") => outcome[c] = "disconnected"

\* C2: when all N callers have sent their request and the peer has answered
\* all of them, in any order, and the listener handled every answer before
\* its caller ended, each caller holds exactly the response with its own
\* identifier.
C2_PermutedResponsesRouted ==
    (/\ answered = Callers
     /\ handledInTime = Callers
     /\ \A c \in Callers : pc[c] = "done")
    => \A c \in Callers : result[c] = Response(c)

\* C3: a response the listener has finished handling before its request
\* timed out is what send_request returns.
C3_ResponseBeforeTimeoutReturned ==
    \A c \in Callers :
        (pc[c] = "done" /\ c \in handledInTime)
        => (outcome[c] = "result" /\ result[c].data = c)

\* C5: every send_request call that has started eventually completes.
C5_SendRequestCompletes ==
    \A c \in Callers : (pc[c] # "idle") ~> (pc[c] = "done")

\* C5 witness: a call that was blocked when disconnect() ran, with the peer
\* closed as well, has completed.
C5_Witness ==
    \E c \in Callers :
        c \in blockedAtDisconnect /\ peerClosed /\ pc[c] = "done"

\* The callers whose send_request ended with a request timeout.
TimedOut == {c \in Callers : pc[c] = "done" /\ outcome[c] = "timeout"}

\* C13: when _handle_message looks up a response whose request has already
\* timed out, the response is dropped: no Event is set, no entry of
\* self.responses or self.pending_requests is written, and the listener goes
\* on with its loop.
C13_LateResponseUnmatched ==
    [][(/\ lpc = "lookup"
        /\ lpc' # "lookup"
        /\ OwnerOf(lmsg.trace_id) \cap TimedOut # {})
       => (/\ lpc' = "select"
           /\ event_set' = event_set
           /\ responses' = responses
           /\ pending_requests' = pending_requests)]_vars

\* C13 witness: the listener finished handling the response of a request
\* after that request had timed out, while another request is still waiting,
\* and left nothing in self.responses.
C13_Witness ==
    \E c \in TimedOut :
        /\ lmsg = Response(c)
        /\ lpc = "select"
        /\ c \notin handledInTime
        /\ responses = EmptyDict
        /\ \E d \in Callers : pc[d] = "wait" /\ ~event_set[d]

\* The listener left its loop although disconnect() was never called: it
\* read an empty chunk.
ListenerSawEof == lpc = "exited" /\ running /\ sock # "none"

C15_ConnectionFailureFailsPending ==
    /\ \A c \in Callers : outcome[c] = "send_failed" => ~connected
    /\ ListenerSawEof => \A c \in Callers : ~(pc[c] = "wait" /\ ~event_set[c])

\* ------------------------------------------------------------------------
\* Claims about the listener's frame reassembly (SpecListen)
\* ------------------------------------------------------------------------

\* The items are all frames: a length prefix that equals the payload length.
AllFrames == \A i \in DOMAIN items : items[i] # "fragment3"

\* Size on the wire of a frame of one kind.
FrameSize(kind) == 4 + BLen(PayloadOf(kind))

RECURSIVE ExpectedOf(_)
\* The messages of the parseable frames of its, in order.
ExpectedOf(its) ==
    IF its = <<>> THEN <<>>
    ELSE (IF Head(its) \in {"bad_json", "fragment3"}
          THEN <<>> ELSE <<MessageOf(Head(its))>>) \o ExpectedOf(Tail(its))

\* The messages in h.
Range(h) == {h[i] : i \in DOMAIN h}

C7_BadPayloadDiscarded ==
    (\A i \in DOMAIN items : items[i] \in GoodKinds \cup {"bad_json", "big"})
    => /\ (stream # <<>> => listening)
       /\ handled \o Drain(BCat(buffer, stream)).out = ExpectedOf(items)
       /\ (stream = <<>> => buffer = <<>>)

\* C7 witness: a bad frame then a good one; the good one was passed on.
C7_Witness ==
    /\ items = <<"bad_json", "good_a">>
    /\ stream = <<>>
    /\ listening
    /\ handled = <<MessageOf("good_a")>>

\* C8: once everything the peer wrote is received, a well-formed frame that
\* followed a frame longer than the buffer cap has been passed to the handler.
C8_NextFrameAfterOversize ==
    (AllFrames /\ stream = <<>>)
    => \A i \in DOMAIN items :
          (i > 1 /\ items[i - 1] = "oversize" /\ items[i] \in GoodKinds)
          => MessageOf(items[i]) \in Range(handled)

\* C9: a 3-byte length-prefix-only fragment followed by a valid frame: only
\* the valid frame's payload is passed to the handler.
C9_FragmentThenValidFrame ==
    (items = <<"fragment3", "good_a">> /\ stream = <<>>)
    => handled = <<MessageOf("good_a")>>

\* ------------------------------------------------------------------------
\* Claims about the IPCCommunicator lifecycle (SpecIPCLife)
\* ------------------------------------------------------------------------

\* The listener threads whose recv call is bound to socket s.
ReadersOf(s) == {t \in SocketIds : listener[t].state = "recv"
                                   /\ listener[t].sock = s}

\* C10: at most one listener thread reads from the instance's socket, and a
\* listener reads only from the socket of the connection that started it.
C10_SingleListener ==
    /\ ipc_socket # NoSocket => Cardinality(ReadersOf(ipc_socket)) <= 1
    /\ \A t \in SocketIds :
          listener[t].state = "recv" => listener[t].sock = t

\* The open sockets the instance still refers to: the one self.socket names
\* and those a listener thread of the instance is reading from.
OwnedOpenSockets ==
    {s \in SocketIds : /\ sock_state[s] = "open"
                       /\ (s = ipc_socket \/ ReadersOf(s) # {})}

\* C11: an IPCCommunicator instance never has two open sockets, whatever
\* sequence of constructor auto-connect, connect(), __enter__ and disconnect()
\* is run on it.
C11_SingleConnection == Cardinality(OwnedOpenSockets) <= 1

\* C12: a connect() that finds its endpoint path missing returns failure,
\* makes no socket object, starts no listener thread and leaves self.socket
\* and self.connected as they were, so that a transport that was not
\* connected is still not connected.
C12_MissingEndpointConnectFails ==
    [][(/\ connect_call'.tick # connect_call.tick
        /\ connect_call'.endpoint = "missing")
       => (/\ connect_call'.result = FALSE
           /\ sock_state' = sock_state
           /\ listener' = listener
           /\ ipc_socket' = ipc_socket
           /\ ipc_connected' = ipc_connected)]_vars

\* C12 witness: connect() on a new instance (auto_connect=False) found the
\* endpoint missing and returned False; there is no socket and no listener.
C12_Witness ==
    /\ connect_call.endpoint = "missing"
    /\ connect_call.result = FALSE
    /\ ~ipc_connected
    /\ ipc_socket = NoSocket
    /\ \A s \in SocketIds : sock_state[s] = "unused" /\ listener[s] = NoListener

\* ------------------------------------------------------------------------
\* Claims about request timeouts
\* ------------------------------------------------------------------------

\* C4 (IPCCommunicator): a send_request that was written to the socket and
\* whose response the peer never wrote ends with a request timeout, its
\* identifier no longer a key of pending_responses.
C4_UnansweredRequestTimesOut ==
    \A c \in Callers :
        (/\ ipc_pc[c] = "done"
         /\ c \notin ipc_answered
         /\ ipc_outcome[c] \notin {"not_connected", "attribute_error",
                                   "send_failed"})
        => (/\ ipc_outcome[c] = "timeout"
            /\ ipc_req[c] \notin DOMAIN pending_responses)

\* ------------------------------------------------------------------------
\* Claims about IPCCommunicator request outcomes (SpecIPC, SpecIPCNotify)
\* ------------------------------------------------------------------------

\* The callers whose request was written to the socket and has ended.
IpcCompleted ==
    {c \in Callers : /\ ipc_pc[c] = "done"
                     /\ ipc_outcome[c] \notin {"not_connected", "attribute_error",
                                               "send_failed"}}

\* C16: when one send_request has ended with a request timeout or a remote
\* error, every other send_request that was in flight ends with its own
\* response (result or remote error) or with its own request timeout.
C16_PerCallFailuresAreLocal ==
    \A a \in IpcCompleted, b \in IpcCompleted :
        (a # b /\ ipc_outcome[a] \in {"timeout", "remote_error"})
        => ipc_outcome[b] \in {"result", "remote_error", "timeout"}

\* C17: when send_request is woken with a response in its slot, it raises a
\* remote error carrying the code and the message of the response's error
\* object if the response has one, and returns the response's result field
\* otherwise.
C17_RemoteErrorOrResult ==
    [][\A c \in Callers :
          (/\ ipc_pc[c] = "wait"
           /\ ipc_pc'[c] = "done"
           /\ response_event
           /\ pending_responses[ipc_req[c]] # IpcNoMsg)
          => LET response == pending_responses[ipc_req[c]]
             IN  IF "error" \in DOMAIN response
                 THEN /\ ipc_outcome'[c] = "remote_error"
                      /\ "code" \in DOMAIN response.error
                            => ipc_result'[c].code = response.error.code
                      /\ "message" \in DOMAIN response.error
                            => ipc_result'[c].message = response.error.message
                 ELSE /\ ipc_outcome'[c] = "result"
                      /\ ipc_result'[c] = response.result]_vars

\* C17 witness: a request ended with the remote error the peer answered it
\* with, after the listener had passed a notification to the callback.
C17_Witness ==
    \E c \in Callers :
        /\ ipc_outcome[c] = "remote_error"
        /\ ipc_result[c].code = 0 - c
        /\ ipc_result[c].message = <<"error", c>>
        /\ callback_calls # <<>>

\* ------------------------------------------------------------------------
\* Claims about IPCCommunicator notifications (SpecIPCNotify)
\* ------------------------------------------------------------------------

\* The calls of the callback that were given the n-th notification.
NoteCalls(n) ==
    {i \in DOMAIN callback_calls : callback_calls[i].message = IpcNotification(n)}

\* The n-th notification is still to be read or is being dispatched.
NotePending(n) ==
    \/ \E s \in SocketIds : \E i \in DOMAIN ipc_wire[s] :
          ipc_wire[s][i] = IpcNotification(n)
    \/ \E t \in SocketIds :
          listener[t].state = "lookup" /\ ipc_lmsg[t] = IpcNotification(n)

C19_UnmatchedFrameToHandler ==
    [][\A t \in SocketIds :
          (listener[t].state = "lookup" /\ listener'[t].state # "lookup")
          => LET data == ipc_lmsg[t]
             IN  IF "id" \in DOMAIN data /\ data.id \in DOMAIN pending_responses
                 THEN listener'[t].state = "store"
                 ELSE notification_callback
                      => callback_calls' = Append(callback_calls,
                             [message |-> data, thread |-> <<"listener", t>>])]_vars

\* A write on the instance's socket raises socket.error.
WriteFails ==
    /\ ipc_socket # NoSocket
    /\ (sock_state[ipc_socket] # "open" \/ ipc_socket \in ipc_peer_closed)

HoldsRequestId(c) == ipc_pc[c] # "idle" /\ ipc_outcome[c] # "not_connected"

\* C21: any two send_request calls on one instance obtain distinct
\* correlation identifiers, also when the calls run concurrently.
C21_DistinctRequestIds ==
    \A c \in Callers : \A d \in Callers :
        (c # d /\ HoldsRequestId(c) /\ HoldsRequestId(d))
            => ipc_req[c] # ipc_req[d]

\* Two calls are in flight at once, each holding its id, neither yet sent.
C21_Witness ==
    \E c \in Callers : \E d \in Callers :
        /\ c # d
        /\ ipc_pc[c] = "sendall" /\ ipc_pc[d] = "sendall"
        /\ HoldsRequestId(c) /\ HoldsRequestId(d)
        /\ ipc_req[c] # ipc_req[d]

\* ------------------------------------------------------------------------
\* TowelTransportClient: access to pending_requests
\* ------------------------------------------------------------------------

\* The listener is between its membership test on pending_requests and its
\* last access to the entry it found.
ListenerHoldsEntry == lpc \in {"store", "set"}

\* C22: every access to the pending-request table happens with one mutex
\* held, so while the listener is between looking an entry up and using
\* it, no caller inserts into the table or deletes from it.
C22_PendingTableMutex ==
    [][ListenerHoldsEntry => pending_requests' = pending_requests]_vars

\* ------------------------------------------------------------------------
\* _listen_loop: order of delivery
\* ------------------------------------------------------------------------

RECURSIVE IsSubseq(_, _)
\* h is e with some elements left out: the order of e is kept and no element
\* of e is used twice.
IsSubseq(h, e) ==
    IF h = <<>> THEN TRUE
    ELSE IF e = <<>> THEN FALSE
    ELSE IF Head(h) = Head(e) THEN IsSubseq(Tail(h), Tail(e))
    ELSE IsSubseq(h, Tail(e))

\* C25: the frames are passed to the handler in the order in which their
\* bytes arrived: no frame before one that arrived earlier, no frame twice.
C25_DeliveredInArrivalOrder == IsSubseq(handled, ExpectedOf(items))

\* C25 witness: two different frames arrived, recv cut the stream at least
\* once, and both were passed on, the first one first.
C25_Witness ==
    /\ items = <<"good_a", "good_b">>
    /\ shortReads >= 1
    /\ stream = <<>>
    /\ handled = <<MessageOf("good_a"), MessageOf("good_b")>>

\* ------------------------------------------------------------------------
\* IPCCommunicator: the listener after disconnect()
\* ------------------------------------------------------------------------

\* C26: once disconnect() has closed the connection a listener was started
\* for, that listener stops: it is never again inside recv on an open
\* socket, where it would go on handing frames to the handler.
C26_ListenerStopsAfterDisconnect ==
    \A t \in SocketIds :
        sock_state[t] = "closed"
            => ~(/\ listener[t].state = "recv"
                 /\ sock_state[listener[t].sock] = "open")

\* ------------------------------------------------------------------------
\* Claims about frames written and read back (SpecFrame)
\* ------------------------------------------------------------------------

\* C23: a mapping that was written as a frame (json.dumps, UTF-8, 4-byte
\* big-endian length in front) and read back from that frame (length, body,
\* UTF-8 decode, json.loads) is a mapping equal to the one written.
C23_RoundTrip ==
    msg_pc = "received"
        => (msg_received.ok /\ msg_received.value = msg_data)

\* C23 witness: a mapping with two keys, one of them a quote, a value that
\* holds a 3-byte character, and a nested object whose key is a backslash,
\* was written and read back.
C23_Witness ==
    /\ msg_pc = "received"
    /\ msg_received.ok
    /\ msg_data = JObj(<< <<<<97>>, JStr(<<20013>>)>>,
                          <<<<34>>, JObj(<< <<<<92>>, JInt(0 - 1)>> >>)>> >>)

\* C24: in every frame written, the 4-byte big-endian length field is the
\* number of bytes that follow it, which is the number of bytes of the
\* UTF-8 encoding of the serialised payload, not its number of characters.
C24_LengthIsByteCount ==
    msg_pc \in {"sent", "received"}
        => /\ BLen(msg_wire) >= 4
           /\ Unpack(BTake(msg_wire, 4)) = BLen(msg_wire) - 4
           /\ BLen(msg_wire) - 4 = Len(Utf8Encode(json_dumps(msg_data)))

\* C24 witness: a frame was written whose payload has more bytes than
\* characters.
C24_Witness ==
    /\ msg_pc = "sent"
    /\ Unpack(BTake(msg_wire, 4)) > Len(json_dumps(msg_data))


\* C27: MockIPCCommunicator.send_request never touches a socket; every call
\* appends exactly one entry to request_log, after the entries of the calls
\* before it, and returns the response configured for the method when there
\* is one, otherwise {'success': True, 'data': {}} for a method name that
\* starts with 'get' and {'success': True, 'result': 'ok'} for any other.
C27_MockLogsAndAnswers ==
    [][mock_calls' # mock_calls =>
          LET c == mock_calls'[Len(mock_calls')]
          IN  /\ mock_calls' = Append(mock_calls, c)
              /\ request_log' = Append(request_log,
                     [method |-> c.method, params |-> c.params])
              /\ c.returned =
                     IF c.method \in DOMAIN mock_responses
                     THEN mock_responses[c.method]
                     ELSE IF Len(c.method) >= 3
                             /\ <<c.method[1], c.method[2], c.method[3]>>
                                = <<"g", "e", "t">>
                     THEN [success |-> TRUE, data |-> EmptyDict]
                     ELSE [success |-> TRUE, result |-> "ok"]
              /\ ipc_socket' = ipc_socket
              /\ sock_state' = sock_state
              /\ ipc_socket = NoSocket]_vars

\* Two calls, the first answered with a configured response and the second,
\* for a method that has none, with the default for a 'get' method.
C27_Witness ==
    /\ Len(request_log) = 2
    /\ Len(mock_calls) = 2
    /\ mock_calls[1].method \in DOMAIN mock_responses
    /\ mock_calls[1].returned = UserInfoResponse
    /\ mock_calls[2].method \notin DOMAIN mock_responses
    /\ mock_calls[2].returned = DefaultGetResponse
    /\ request_log[2].method = mock_calls[2].method

\* The records of the request history are those of calls in call order.
HistoryInCallOrder ==
    \A i, j \in DOMAIN request_history :
        i < j => request_history[i].request_id < request_history[j].request_id

\* C28: every execute_request call with a supported HTTP method appends
\* exactly one record to the request history, whether it returns or raises;
\* the status of the record is 'success' when the call returns and
\* 'http_error', 'timeout' or 'request_error' when it fails with an
\* HTTPError, a Timeout or another RequestException; records are in call
\* order.
C28_OneRecordPerRequest ==
    /\ []HistoryInCallOrder
    /\ [][tm_calls' # tm_calls =>
             LET c == tm_calls'[Len(tm_calls')]
             IN  Upper(c.method) \in {"GET", "POST", "PUT", "DELETE"} =>
                 /\ Len(request_history') = Len(request_history) + 1
                 /\ SubSeq(request_history', 1, Len(request_history))
                    = request_history
                 /\ LET r == request_history'[Len(request_history')]
                    IN  /\ r.request_id = c.request_id
                        /\ (c.raised = "none") <=> (r.status = "success")
                        /\ r.status =
                               CASE c.caught = "none" -> "success"
                                 [] c.caught = "HTTPError" -> "http_error"
                                 [] c.caught = "Timeout" -> "timeout"
                                 [] c.caught = "RequestException" ->
                                        "request_error"]_vars

\* A call that timed out and then a call that succeeded, each with its
\* record.
C28_Witness ==
    /\ Len(tm_calls) = 2
    /\ Len(request_history) = 2
    /\ tm_calls[1].raised = "TraeAPIError"
    /\ request_history[1].status = "timeout"
    /\ tm_calls[2].raised = "none"
    /\ request_history[2].status = "success"

\* The message history the calls made so far should have left: nothing for a
\* call whose transport call raised, otherwise the user message followed by
\* the assistant reply when the result has a 'response' field.
RECURSIVE ExpectedMessages(_)
ExpectedMessages(calls) ==
    IF calls = <<>> THEN <<>>
    ELSE LET c == calls[Len(calls)]
             before == ExpectedMessages(SubSeq(calls, 1, Len(calls) - 1))
         IN  IF c.raised THEN before
             ELSE IF "response" \in DOMAIN c.result
             THEN before \o <<[role |-> "user", content |-> c.message],
                              [role |-> "assistant",
                               content |-> c.result.response]>>
             ELSE Append(before, [role |-> "user", content |-> c.message])

\* C29: each successful send_message appends the user message and then, when
\* the result has a 'response' field, the assistant reply; after k
\* successful calls that each returned a response the history holds 2k
\* entries alternating user and assistant; a send_message whose transport
\* call raised leaves the history as it was.
C29_HistoryFollowsCalls ==
    /\ message_history = ExpectedMessages(chat_calls)
    /\ (\A i \in DOMAIN chat_calls :
            ~chat_calls[i].raised /\ "response" \in DOMAIN chat_calls[i].result)
       => /\ Len(message_history) = 2 * Len(chat_calls)
          /\ \A i \in DOMAIN message_history :
                 message_history[i].role =
                     IF i % 2 = 1 THEN "user" ELSE "assistant"

\* Two successful calls that each returned a response: four entries.
C29_Witness ==
    /\ Len(chat_calls) = 2
    /\ \A i \in DOMAIN chat_calls :
           ~chat_calls[i].raised /\ "response" \in DOMAIN chat_calls[i].result
    /\ Len(message_history) = 4
    /\ message_history[3] = [role |-> "user", content |-> chat_calls[2].message]
    /\ message_history[4].role = "assistant"

\* C30: select_model with a name that matches neither the name nor the id
\* of any entry of a non-empty model list returns False and leaves
\* selected_model unchanged; with a matching name, or with no model list
\* loaded, it returns True and sets selected_model to that name.
C30_SelectModel ==
    [][select_call'.tick # select_call.tick =>
          LET model_name == select_call'.name
              matches ==
                  \E i \in DOMAIN model_list.items :
                      LET m == model_list.items[i]
                      IN  \/ "name" \in DOMAIN m /\ m.name = model_name
                          \/ "id" \in DOMAIN m /\ m.id = model_name
              loaded == ~model_list.is_none
          IN  /\ (loaded /\ model_list.items # <<>> /\ ~matches) =>
                     /\ select_call'.result = FALSE
                     /\ selected_model' = selected_model
              /\ (~loaded \/ matches) =>
                     /\ select_call'.result = TRUE
                     /\ selected_model' = model_name]_vars

\* An unknown name refused on a non-empty list after another model was
\* selected: the earlier selection is still there.
C30_Witness ==
    /\ model_list.items # <<>>
    /\ select_call.name = "Unknown-Model"
    /\ select_call.result = FALSE
    /\ selected_model = "DeepSeek-V2.5"


\* ------------------------------------------------------------------------
\* Claims about correlation, buffers and disconnect
\* ------------------------------------------------------------------------

\* C32: in IPCCommunicator, whose callers share one response_event, a
\* send_request that wakes from its wait finds the response carrying its own
\* identifier in its slot: it never reads a slot that still holds None.
C32_WakeFindsOwnResponse ==
    \A c \in Callers :
        /\ ipc_outcome[c] # "type_error"
        /\ ipc_outcome[c] = "result" => ipc_result[c] = c

\* C34: once a send_request has returned or raised, no entry keyed by that
\* request remains in pending_requests, responses or trace_id_map.
C34_NoEntryAfterReturn ==
    \A c \in Callers :
        pc[c] = "done" =>
            /\ RequestId(c) \notin DOMAIN pending_requests
            /\ RequestId(c) \notin DOMAIN responses
            /\ TraceId(c) \notin DOMAIN trace_id_map

\* The timeout of caller c raced with the listener delivering c's response:
\* the response was stored although c had given up.
RacedWithTimeout(c) ==
    /\ outcome[c] = "timeout"
    /\ RequestId(c) \in DOMAIN responses

\* C39: a caller-side timeout that deletes the pending entry between the
\* listener's membership check and its signal never ends the listener loop:
\* from the signal that finds no entry the listener goes back to its loop,
\* and it leaves the loop only when the loop condition is false or the peer
\* closed the connection.
C39_ListenerSurvivesRace ==
    /\ [](lpc = "exited" => (~running \/ sock = "none" \/ peerClosed))
    /\ [][(lpc = "set" /\ lrid \notin DOMAIN pending_requests /\ lpc' # lpc)
             => lpc' = "select"]_vars

\* After such a race for one caller the listener is about to signal another
\* caller, whose frame came later.
C39_Witness ==
    \E c, d \in Callers :
        /\ c # d
        /\ RacedWithTimeout(c)
        /\ lpc = "set"
        /\ lmsg = Response(d)
        /\ lrid = RequestId(d)
        /\ lrid \in DOMAIN pending_requests

\* C35: after each received chunk has been drained the buffer of
\* TowelTransportClient's listener holds at most max_buffer_size bytes,
\* whatever lengths the peer declares.
C35_BufferBounded == BLen(buffer) <= max_buffer_size

\* The buffer holds exactly max_buffer_size bytes of a frame that declares
\* more.
C35_Witness ==
    /\ BLen(buffer) = max_buffer_size
    /\ Incomplete(buffer)
    /\ stream # <<>>

\* C37: a send_request on a transport that is not connected (never
\* connected, or after disconnect()) fails at once with a not-connected
\* failure, writes nothing to any socket and leaves the request-id counter
\* and the correlation table unchanged.
C37_NotConnectedFailsAtOnce ==
    [][\A c \in Callers :
           (/\ ipc_pc[c] = "idle"
            /\ ipc_pc'[c] # "idle"
            /\ ~(ipc_connected /\ ipc_socket # NoSocket))
           => /\ ipc_pc'[c] = "done"
              /\ ipc_outcome'[c] = "not_connected"
              /\ request_id' = request_id
              /\ pending_responses' = pending_responses
              /\ ipc_inbox' = ipc_inbox
              /\ ipc_req' = ipc_req]_vars

\* One call failed on an instance after disconnect(), with a request of
\* another caller written before it.
C37_Witness ==
    \E c, d \in Callers :
        /\ ipc_outcome[c] = "not_connected"
        /\ ipc_socket = NoSocket
        /\ \E s \in SocketIds : sock_state[s] = "closed"
        /\ ipc_req[d] = 1
        /\ request_id = 1
        /\ ipc_req[c] = 0

\* C40: disconnect() leaves no socket and an instance that is not connected,
\* and on an instance that has no socket (after a disconnect(), or never
\* connected) it changes nothing.
C40_DisconnectIdempotent ==
    [][IpcDisconnect =>
          /\ ipc_socket' = NoSocket
          /\ ~ipc_connected'
          /\ (ipc_socket = NoSocket => UNCHANGED ipcVars)]_vars

\* A disconnect() has closed a socket; the instance is in the state a second
\* call leaves as it is.
C40_Witness ==
    /\ ipc_socket = NoSocket
    /\ ~ipc_connected
    /\ \E s \in SocketIds : sock_state[s] = "closed"
    /\ \E t \in SocketIds : listener[t].state = "exited"


\* C38: a notification written by send_notification carries no correlation
\* identifier, and no step of send_notification adds an entry to the
\* pending-response table or advances the request-id counter.
C38_NotificationUncorrelated ==
    /\ [](\A i \in DOMAIN ipc_notified :
             /\ "id" \notin DOMAIN ipc_notified[i]
             /\ ipc_notified[i].type = "notification")
    /\ [][ipc_pc'[Notifier] # ipc_pc[Notifier] =>
             /\ request_id' = request_id
             /\ pending_responses' = pending_responses
             /\ ipc_req' = ipc_req]_vars

\* A notification was written while a request with an id of its own was
\* pending.
C38_Witness ==
    /\ Len(ipc_notified) = 1
    /\ ipc_outcome[Notifier] = "sent"
    /\ request_id = 1
    /\ DOMAIN pending_responses = {1}


\* The bytes recv has returned so far.
Received == BTake(sent, BLen(sent) - BLen(stream))

\* A buffer that holds no complete frame: shorter than 4 bytes, or shorter
\* than 4 plus the length its first 4 bytes declare.
NoCompleteFrame(buf) == BLen(buf) < 4 \/ Incomplete(buf)

RECURSIVE CompleteItems(_, _)
\* The number of leading frames of its that lie within the first n bytes.
CompleteItems(its, n) ==
    IF its = <<>> \/ FrameSize(Head(its)) > n THEN 0
    ELSE 1 + CompleteItems(Tail(its), n - FrameSize(Head(its)))

\* Every frame received completely was taken out of the buffer once: the
\* handler got the messages of exactly those frames and the buffer is what
\* was received behind them.
RemovedExactlyOnce(buf, h) ==
    LET k == CompleteItems(items, BLen(Received))
    IN  /\ h = ExpectedOf(SubSeq(items, 1, k))
        /\ buf = BDrop(Received, BLen(WireOf(SubSeq(items, 1, k))))

\* C36: after the drain loop has finished for a received chunk the buffer
\* holds no complete frame, in TowelTransportClient and in
\* TowelTransportIPC, and every frame that was completely received has been
\* removed from the buffer exactly once (for TowelTransportClient, frames
\* that the cap on the buffer lets through).
C36_NoCompleteFrameLeft ==
    /\ NoCompleteFrame(buffer)
    /\ NoCompleteFrame(final_buffer)
    /\ AllFrames => RemovedExactlyOnce(final_buffer, final_handled)
    /\ (/\ AllFrames
        /\ \A i \in DOMAIN items : FrameSize(items[i]) <= max_buffer_size + 1)
       => RemovedExactlyOnce(buffer, handled)

\* One chunk held two whole frames: the drain loop removed both and passed
\* them on, and both buffers are empty.
C36_Witness ==
    /\ items = <<"good_a", "good_b">>
    /\ shortReads = 0
    /\ stream = <<>>
    /\ handled = <<MessageOf("good_a"), MessageOf("good_b")>>
    /\ final_handled = handled
    /\ buffer = <<>>
    /\ final_buffer = <<>>


\* C31: in TowelTransportIPC an inbound message is stored for, and signals,
\* only the pending request whose own request_id or trace_id it carries: a
\* stored response is filed under its own request_id, and a response that
\* send_request returns is the response to that request.
C31_OwnResponseOnly ==
    /\ \A rid \in DOMAIN final.responses :
          final.responses[rid].request_id = rid
    /\ \A c \in Callers :
          final.outcome[c] = "result" => final.result[c] = FinalResponse(c)

RECURSIVE FrameStarts(_)
\* The positions in the byte stream of the frames its at which a frame starts
\* or the stream ends.
FrameStarts(its) ==
    IF its = <<>> THEN {0}
    ELSE {0} \cup {FrameSize(Head(its)) + b : b \in FrameStarts(Tail(its))}

\* C33: after every call of _recv_message, whatever it returned, the next
\* byte to be read is the first byte of a frame's length prefix.
C33_FrameAligned == rx.pc = "idle" => rx.pos \in FrameStarts(rx.items)

====
